---------------------------- MODULE Spec2Model ----------------------------
(***************************************************************************)
(* Scan Aggregation Engine of osint-playground                             *)
(* (src/lib/search-aggregator.js, class SearchAggregator).                 *)
(*                                                                         *)
(* The specifications of this module:                                      *)
(*   Spec        the engine: startScan / runScan, the adapter fan-out, the *)
(*               per-adapter and total deadlines, the cache and the events *)
(*   FusionSpec  the pure result-fusion pipeline (deduplicateResults,      *)
(*               scoreResults, the final sort) applied to bounded inputs   *)
(*   LiveSpec    the engine without cache, under the assumption that       *)
(*               timers fire and resolved awaits resume                    *)
(*   ScoreSpec   scoreResults and the whole fusion on one or two findings  *)
(*               of any confidence, username and richness                  *)
(*   DedupeSpec  deduplicateResults on pairs of findings over all three    *)
(*               dedupe fields                                             *)
(*   RegistrySpec  registerAdapter and getAdapters next to one scan job    *)
(*   StreamSpec  the server's event stream route next to one scan job      *)
(*   RateSpec    BaseAdapter.checkRateLimit with concurrent callers        *)
(*   ThemeSpec   ThemeManager (src/public/js/theme-manager.js)             *)
(*                                                                         *)
(* Confidences are JS numbers in [0,1]; the model keeps them in hundredths *)
(* (0.8 is 80).  Time is Date.now() in milliseconds.                       *)
(***************************************************************************)
EXTENDS Integers, Sequences, FiniteSets, TLC

VARIABLES
    config,        \* this.config: AGGREGATOR_CONFIG overridden by constructor options
    now,           \* Date.now(), ms
    scans,         \* this.scans: the job table, scan id = index
    cache,         \* this.cache: cache key -> entry
    calls,         \* per scan, per adapter: state of the Promise.race of one adapter call
    pc,            \* per scan: where runScan / the startScan catch handler stands
    emitted,       \* per scan: number of events published, by event name
    adapters,      \* this.adapters: the registry, a Map in insertion order
    registerCalls, \* number of registerAdapter calls made after construction
    lastRegistered, \* the adapter handed to the last of them
    streams,       \* server: the open GET /api/scan/:id/stream responses
    fusionIn,      \* FusionSpec: the list handed to the last fusion operation
    fusionCur,     \* FusionSpec: the current list
    fusionOp,      \* FusionSpec: the last operation applied
    fusionPrevOp,  \* FusionSpec: the operation applied before that
    fusionFirst,   \* FusionSpec: the list after the first complete fusion
    fusionPasses,  \* FusionSpec: number of complete fusions (dedupe, score, sort)
    fusionQuery,   \* FusionSpec, ScoreSpec: the query handed to scoreResults
    currentTheme,  \* ThemeManager: this.currentTheme, the preference
    resolvedTheme, \* ThemeManager: this.resolvedTheme
    listeners,     \* ThemeManager: this.listeners, a Set of callbacks
    storedTheme,   \* localStorage[STORAGE_KEY], "" when the key is absent
    storageWorks,  \* whether localStorage accepts reads and writes
    prefersDark,   \* mediaQuery.matches
    notified,      \* per callback: number of times it has been called
    themeCalls,    \* number of ThemeManager calls made after init
    lastThemeCall, \* the last of them: operation, argument, how it returned
    cycleStart,    \* the preference before the current run of cycleTheme calls
    cycleRun,      \* the length of that run
    rateLimit,     \* BaseAdapter: this.rateLimit of one adapter
    requestCount,  \* BaseAdapter: this.requestCount
    lastRequest,   \* BaseAdapter: this.lastRequest, ms
    callers,       \* per caller of checkRateLimit: idle, or asleep until wakeAt
    windowPassed   \* calls let through since lastRequest last moved

registryVars == <<adapters, registerCalls, lastRegistered>>
engineVars == <<config, now, scans, cache, calls, pc, emitted, registryVars, streams>>
fusionVars == <<fusionIn, fusionCur, fusionOp, fusionPrevOp, fusionFirst, fusionPasses,
                fusionQuery>>
themeVars == <<currentTheme, resolvedTheme, listeners, storedTheme, storageWorks,
               prefersDark, notified, themeCalls, lastThemeCall, cycleStart, cycleRun>>
rateVars == <<rateLimit, requestCount, lastRequest, callers, windowPassed>>
sideVars == <<themeVars, rateVars>>
vars == <<config, now, scans, cache, calls, pc, emitted,
          adapters, registerCalls, lastRegistered, streams,
          fusionIn, fusionCur, fusionOp, fusionPrevOp, fusionFirst, fusionPasses,
          fusionQuery,
          currentTheme, resolvedTheme, listeners, storedTheme, storageWorks,
          prefersDark, notified, themeCalls, lastThemeCall, cycleStart, cycleRun,
          rateLimit, requestCount, lastRequest, callers, windowPassed>>

----------------------------------------------------------------------------
(* Bounds of the model *)

MaxScans == 2        \* startScan calls per behaviour
MaxTicks == 3        \* clock ticks per behaviour
TickMs == 500        \* milliseconds per clock tick
MaxLen == 3          \* FusionSpec: length of the input list

----------------------------------------------------------------------------
(* Program constants (hundredths of confidence) *)

DefaultScore == 50       \* result.confidence || 0.5
VerifiedBoost == 20      \* score += 0.2
UsernameBoost == 30      \* score += 0.3
RichnessWeight == 10     \* (filledFields / dataFields.length) * 0.1
DataFieldCount == 5      \* dataFields.length
HighThreshold == 80      \* confidence >= 0.8
MediumThreshold == 50    \* confidence >= 0.5
MsPerSecond == 1000      \* cacheTTL * 1000

----------------------------------------------------------------------------
(* Findings *)

\* A finding as fusion reads it.  id stands for the object's identity
\* (its arrival position); url, username, email are the dedupe fields, ""
\* when absent; extra counts the non-empty fields among displayName, bio,
\* location, avatar; confidenceLevel is "" until scoreResults assigns it.
Finding(id, url, username, email, confidence, verified, extra) ==
    [id |-> id, url |-> url, username |-> username, email |-> email,
     confidence |-> confidence, verified |-> verified, extra |-> extra,
     confidenceLevel |-> ""]

NonEmpty(v) == v # ""

\* Variant: the key is the first non-empty dedupe field together with its name
DedupeKeyFirstField(r) ==
    IF r.url # "" THEN <<"url", r.url>>
    ELSE IF r.username # "" THEN <<"username", r.username>>
    ELSE IF r.email # "" THEN <<"email", r.email>>
    ELSE <<>>

\* config.dedupeFields.map(field => result[field]).filter(Boolean).join('|')
\* The joined string is kept as the sequence of its non-empty parts.
DedupeKey(r) == SelectSeq(<<r.url, r.username, r.email>>, NonEmpty)

\* String.prototype.toLowerCase on the strings of the model
Lower(s) == IF s = "ALICE" THEN "alice" ELSE s

Min(a, b) == IF a < b THEN a ELSE b
Max(a, b) == IF a > b THEN a ELSE b

----------------------------------------------------------------------------
(* deduplicateResults *)

\* seen.set(keys, result)
SeenSet(seen, k, r) ==
    [x \in (DOMAIN seen) \cup {k} |-> IF x = k THEN r ELSE seen[x]]

\* Variant: the first finding of a key is kept, whatever comes later
KeepsResultFirstOnly(seen, r) ==
    LET k == DedupeKey(r) IN
    \/ k = <<>>
    \/ k \notin DOMAIN seen

\* The filter callback's return value for result r, given the map seen
KeepsResult(seen, r) ==
    LET k == DedupeKey(r) IN
    \/ k = <<>>
    \/ k \notin DOMAIN seen
    \/ r.confidence > seen[k].confidence

\* Variant: seen.set runs for every keyed finding, kept or not
SeenAfterAlways(seen, r) ==
    LET k == DedupeKey(r) IN
    IF k = <<>> THEN seen ELSE SeenSet(seen, k, r)

\* The map seen after the callback has run on r
SeenAfter(seen, r) ==
    LET k == DedupeKey(r) IN
    IF k = <<>> THEN seen
    ELSE IF k \in DOMAIN seen
         THEN IF r.confidence > seen[k].confidence THEN SeenSet(seen, k, r) ELSE seen
         ELSE SeenSet(seen, k, r)

RECURSIVE DedupeFrom(_, _, _)
DedupeFrom(results, i, seen) ==
    IF i > Len(results) THEN <<>>
    ELSE LET r == results[i]
             rest == DedupeFrom(results, i + 1, SeenAfter(seen, r))
         IN IF KeepsResult(seen, r) THEN <<r>> \o rest ELSE rest

deduplicateResults(results) == DedupeFrom(results, 1, <<>>)

----------------------------------------------------------------------------
(* scoreResults *)

\* dataFields.filter(f => result[f]).length
FilledFields(r) == r.extra + (IF r.email # "" THEN 1 ELSE 0)

ConfidenceLevel(c) ==
    IF c >= HighThreshold THEN "high"
    ELSE IF c >= MediumThreshold THEN "medium"
    ELSE "low"

\* Variant: the username boost goes to the findings that do not match
RawScoreMismatchBoost(r, query) ==
    (IF r.confidence = 0 THEN DefaultScore ELSE r.confidence)
    + (IF r.verified THEN VerifiedBoost ELSE 0)
    + (IF Lower(r.username) # Lower(query) THEN UsernameBoost ELSE 0)
    + (FilledFields(r) * RichnessWeight) \div DataFieldCount

\* lines 954-967: the score before normalisation
RawScore(r, query) ==
    (IF r.confidence = 0 THEN DefaultScore ELSE r.confidence)
    + (IF r.verified THEN VerifiedBoost ELSE 0)
    + (IF Lower(r.username) = Lower(query) THEN UsernameBoost ELSE 0)
    + (FilledFields(r) * RichnessWeight) \div DataFieldCount

\* Variant: the score is stored without normalisation
ScoreOneUnclamped(r, query) ==
    LET c == RawScore(r, query)
    IN [r EXCEPT !.confidence = c, !.confidenceLevel = ConfidenceLevel(c)]

\* lines 953-977: the callback of results.map
ScoreOne(r, query) ==
    LET c == Min(100, Max(0, RawScore(r, query)))
    IN [r EXCEPT !.confidence = c, !.confidenceLevel = ConfidenceLevel(c)]

scoreResults(results, query) ==
    [i \in 1..Len(results) |-> ScoreOne(results[i], query)]

----------------------------------------------------------------------------
(* scan.results.sort((a, b) => b.confidence - a.confidence): stable *)

\* Variant: a finding is put in front of the findings as confident as it is
RECURSIVE InsertByConfidenceUnstable(_, _)
InsertByConfidenceUnstable(sorted, r) ==
    IF sorted = <<>> THEN <<r>>
    ELSE IF Head(sorted).confidence > r.confidence
         THEN <<Head(sorted)>> \o InsertByConfidenceUnstable(Tail(sorted), r)
         ELSE <<r>> \o sorted

RECURSIVE InsertByConfidence(_, _)
InsertByConfidence(sorted, r) ==
    IF sorted = <<>> THEN <<r>>
    ELSE IF Head(sorted).confidence >= r.confidence
         THEN <<Head(sorted)>> \o InsertByConfidence(Tail(sorted), r)
         ELSE <<r>> \o sorted

RECURSIVE SortFrom(_, _, _)
SortFrom(results, i, acc) ==
    IF i > Len(results) THEN acc
    ELSE SortFrom(results, i + 1, InsertByConfidence(acc, results[i]))

SortByConfidence(results) == SortFrom(results, 1, <<>>)

\* runScan lines 888-894: deduplicate, score, sort
Fuse(results, query) ==
    SortByConfidence(scoreResults(deduplicateResults(results), query))


----------------------------------------------------------------------------
(* The engine: configuration, registry, scan jobs *)

Null == -1    \* endTime: null

\* Constructor options override AGGREGATOR_CONFIG: the per-adapter deadline
\* may lie before, at or after the total deadline; the cache may be off;
\* maxConcurrentJobs is set to one job.
Configs ==
    { [defaultTimeout |-> 1000, totalTimeout |-> t, cacheTTL |-> 1, enableCache |-> e,
       maxConcurrentJobs |-> 1] :
        t \in {500, 2000}, e \in BOOLEAN }

\* The names an adapter can be registered under: the default adapters of
\* the constructor and one that the caller brings
AdapterNames == {"github", "reddit", "custom"}

\* registerDefaultAdapters (lines 754-767), in registration order, each
\* with the priority its constructor passes (lines 98, 173)
DefaultAdapters ==
    << [name |-> "github", priority |-> 1], [name |-> "reddit", priority |-> 2] >>

NoAdapter == [name |-> "", priority |-> 0]

\* [...this.adapters.keys()]
RegisteredNames == { adapters[i].name : i \in 1..Len(adapters) }

Queries == {"alice"}

\* options: {} or {adapters: [...]}; the allow-list may name adapters that
\* are not registered ("nosuch")
NoOptions == [has |-> FALSE, adapters |-> <<>>]
OptionChoices ==
    {NoOptions,
     [has |-> TRUE, adapters |-> <<"github", "nosuch">>],
     [has |-> TRUE, adapters |-> <<"nosuch">>]}

Range(seq) == {seq[i] : i \in 1..Len(seq)}

\* What one adapter.search call may resolve with: nothing found, or findings
\* (github: one url twice, the weaker first; reddit: the same url again,
\* verified and under the queried username, and two findings without any
\* key, the second as confident as github's second)
AdapterOutputs(a) ==
    IF a = "github"
    THEN { <<>>,
           << Finding(0, "u1", "", "", 60, FALSE, 0), Finding(0, "u1", "", "", 80, FALSE, 0) >> }
    ELSE IF a = "reddit"
    THEN { <<>>,
           << Finding(0, "u1", "alice", "", 80, TRUE, 0), Finding(0, "", "", "", 30, FALSE, 0),
              Finding(0, "", "", "", 80, FALSE, 0) >> }
    ELSE { <<>> }

ScanIds == 1..MaxScans

\* getCacheKey: `${query}:${JSON.stringify(options)}`
getCacheKey(query, options) == <<query, options>>

CacheKeys == {getCacheKey(q, o) : q \in Queries, o \in OptionChoices}

\* A cache entry is {results, timestamp}; writer is not in the program: it
\* remembers the scan whose finalization wrote the entry
NoEntry == [present |-> FALSE, results |-> <<>>, timestamp |-> 0, writer |-> 0]

NoEvents ==
    [adapterStart |-> 0, result |-> 0, progress |-> 0,
     adapterError |-> [a \in AdapterNames |-> 0], complete |-> 0, error |-> 0]

MaxStreams == 2

\* The stream requests the server can hold open
StreamIds == 1..MaxStreams

\* A stream request that has not been made: its scan is 0. received counts
\* the messages written after init, completes those of type complete
NoStream == [scan |-> 0, attached |-> FALSE, closed |-> FALSE, ended |-> FALSE,
             received |-> 0, completes |-> 0]

\* The events of one job that a stream's handlers are subscribed to:
\* scan:result, scan:progress, scan:complete, scan:adapter:error
Subscribed(e) ==
    e.result + e.progress + e.complete
    + e.adapterError["github"] + e.adapterError["reddit"] + e.adapterError["custom"]

\* EventEmitter.emit calls the attached handlers at once: each event of
\* this step is written to every response whose handlers are attached to
\* its job, and onComplete detaches the handlers and ends the response
StreamDelivery ==
    streams' = [i \in StreamIds |->
        LET st == streams[i] IN
        IF st.attached
        THEN LET done == emitted'[st.scan].complete > emitted[st.scan].complete IN
             [st EXCEPT !.received = @ + Subscribed(emitted'[st.scan])
                                       - Subscribed(emitted[st.scan]),
                        !.completes = @ + emitted'[st.scan].complete
                                        - emitted[st.scan].complete,
                        !.attached = ~done,
                        !.ended = done]
        ELSE st]

\* Variant: an allow-list that matches no registered adapter selects them all
SelectedOrAll(options) ==
    LET named == {a \in RegisteredNames : a \in Range(options.adapters)} IN
    IF options.has /\ named # {} THEN named ELSE RegisteredNames

\* Variant: the allow-list is not consulted
SelectedIgnoresList(options) == RegisteredNames

\* runScan lines 832-834
SelectedAdapters(options) ==
    IF options.has THEN {a \in RegisteredNames : a \in Range(options.adapters)}
    ELSE RegisteredNames

\* Variant: the share of sources still outstanding
ProgressRemaining(completed, total) == (200 * (total - completed) + total) \div (2 * total)

\* Math.round((completedSources / totalSources) * 100)
Progress(completed, total) == (200 * completed + total) \div (2 * total)

Exists(s) == s \in 1..Len(scans)

Pending(s) == {a \in AdapterNames : calls[s][a] = "pending"}

\* Variant: runScan does not wait for the adapter calls
ResumingEarly(s) == pc[s] = "awaiting"

\* runScan stands at its await with Promise.all already resolved: the
\* continuation is a microtask and runs before any timer or I/O callback
Resuming(s) == pc[s] = "awaiting" /\ Pending(s) = {}

Quiescent == \A s \in ScanIds : ~Resuming(s)

\* Variant: the age test of the cache read turned around
CacheHitStale(query, options) ==
    LET k == getCacheKey(query, options) IN
    /\ config.enableCache
    /\ cache[k].present
    /\ now - cache[k].timestamp > config.cacheTTL * MsPerSecond

\* Variant: an entry exactly as old as the time-to-live still counts as live
CacheHitInclusive(query, options) ==
    LET k == getCacheKey(query, options) IN
    /\ config.enableCache
    /\ cache[k].present
    /\ now - cache[k].timestamp <= config.cacheTTL * MsPerSecond

\* The cache read of startScan, lines 806-808
CacheHit(query, options) ==
    LET k == getCacheKey(query, options) IN
    /\ config.enableCache
    /\ cache[k].present
    /\ now - cache[k].timestamp < config.cacheTTL * MsPerSecond

NewScan(query, options) ==
    [query |-> query, options |-> options, status |-> "running",
     startTime |-> now, endTime |-> Null, progress |-> 0,
     results |-> <<>>, errors |-> <<>>,
     stats |-> [totalSources |-> Cardinality(RegisteredNames), completedSources |-> 0,
                totalResults |-> 0, uniqueResults |-> 0],
     fromCache |-> FALSE]

\* ThemeManager.THEMES (src/public/js/theme-manager.js)
THEMES == <<"system", "dark", "light">>

ThemeSet == { THEMES[i] : i \in 1..Len(THEMES) }

\* The callbacks handed to subscribe
Callbacks == {"cb1", "cb2"}

NoThemeCall == [op |-> "none", arg |-> "", outcome |-> "none"]

\* The page's ThemeManager, left alone: system preference, nothing stored
ThemeIdle ==
    /\ currentTheme = "system"
    /\ resolvedTheme = "dark"
    /\ listeners = {}
    /\ storedTheme = ""
    /\ storageWorks = TRUE
    /\ prefersDark = TRUE
    /\ notified = [c \in Callbacks |-> 0]
    /\ themeCalls = 0
    /\ lastThemeCall = NoThemeCall
    /\ cycleStart = "system"
    /\ cycleRun = 0

MaxCallers == 2

\* The callers of one adapter's checkRateLimit: concurrent scans
Callers == 1..MaxCallers

\* this.lastRequest = 0 (line 51) is the Unix epoch, long before the
\* construction time from which the model counts its milliseconds
Epoch == -1000000

\* config.rateLimit || { requests: 10, window: 60000 } (line 50)
DefaultRateLimit == [requests |-> 10, window |-> 60000]

NotCalling == [pc |-> "idle", wakeAt |-> 0]

\* An adapter as its constructor leaves it (lines 46-53), nobody calling
RateIdle ==
    /\ rateLimit = DefaultRateLimit
    /\ requestCount = 0
    /\ lastRequest = Epoch
    /\ callers = [c \in Callers |-> NotCalling]
    /\ windowPassed = 0

SideIdle == ThemeIdle /\ RateIdle

\* The registry after the constructor has run
RegistryInit ==
    /\ adapters = DefaultAdapters
    /\ registerCalls = 0
    /\ lastRegistered = NoAdapter

EngineInit ==
    /\ config \in Configs
    /\ now = 0
    /\ scans = <<>>
    /\ cache = [k \in CacheKeys |-> NoEntry]
    /\ calls = [s \in ScanIds |-> [a \in AdapterNames |-> "idle"]]
    /\ pc = [s \in ScanIds |-> "none"]
    /\ emitted = [s \in ScanIds |-> NoEvents]
    /\ RegistryInit
    /\ streams = [i \in StreamIds |-> NoStream]
    /\ SideIdle

FusionIdle ==
    /\ fusionIn = <<>>
    /\ fusionCur = <<>>
    /\ fusionOp = "none"
    /\ fusionPrevOp = "none"
    /\ fusionFirst = <<>>
    /\ fusionPasses = 0
    /\ fusionQuery = ""

Init == EngineInit /\ FusionIdle

\* AGGREGATOR_CONFIG as shipped (lines 12-36)
AGGREGATOR_CONFIG ==
    [defaultTimeout |-> 30000, totalTimeout |-> 120000, cacheTTL |-> 3600,
     enableCache |-> TRUE, maxConcurrentJobs |-> 10]

EngineQuiet ==
    /\ config = AGGREGATOR_CONFIG
    /\ now = 0
    /\ scans = <<>>
    /\ cache = [k \in CacheKeys |-> NoEntry]
    /\ calls = [s \in ScanIds |-> [a \in AdapterNames |-> "idle"]]
    /\ pc = [s \in ScanIds |-> "none"]
    /\ emitted = [s \in ScanIds |-> NoEvents]
    /\ RegistryInit
    /\ streams = [i \in StreamIds |-> NoStream]

EngineIdle == EngineQuiet /\ SideIdle

\* startScan, cache fast path (lines 782-815)
StartScanCached(query, options) ==
    LET s == Len(scans) + 1
        cached == cache[getCacheKey(query, options)]
    IN
    /\ Len(scans) < MaxScans
    /\ Quiescent
    /\ CacheHit(query, options)
    /\ scans' = Append(scans, [NewScan(query, options) EXCEPT
                                  !.results = cached.results,
                                  !.status = "completed",
                                  !.endTime = now,
                                  !.fromCache = TRUE])
    /\ emitted' = [emitted EXCEPT ![s].complete = @ + 1]
    /\ pc' = [pc EXCEPT ![s] = "cached"]
    /\ UNCHANGED <<config, now, cache, calls, fusionVars, registryVars, sideVars>>
    /\ StreamDelivery

\* Variant: startScan awaits runScan when there is no adapter to wait for
StartScanDispatchAwaited(query, options) ==
    LET s == Len(scans) + 1
        sel == SelectedAdapters(options)
        job == [NewScan(query, options) EXCEPT !.stats.totalSources = Cardinality(sel)]
    IN
    /\ Len(scans) < MaxScans
    /\ Quiescent
    /\ ~CacheHit(query, options)
    /\ scans' = Append(scans, IF sel = {}
                              THEN [job EXCEPT !.status = "completed", !.endTime = now,
                                               !.progress = 100]
                              ELSE job)
    /\ calls' = [calls EXCEPT ![s] = [a \in AdapterNames |->
                                        IF a \in sel THEN "pending" ELSE "idle"]]
    /\ emitted' = [emitted EXCEPT ![s].adapterStart = Cardinality(sel),
                                  ![s].complete = IF sel = {} THEN 1 ELSE 0]
    /\ pc' = [pc EXCEPT ![s] = IF sel = {} THEN "completed" ELSE "awaiting"]
    /\ UNCHANGED <<config, now, cache, fusionVars, registryVars, sideVars>>
    /\ StreamDelivery

\* startScan without a live cache entry (lines 782-802, 818-825) and
\* runScan up to its await (lines 828-886): every selected adapter is started
StartScanDispatch(query, options) ==
    LET s == Len(scans) + 1
        sel == SelectedAdapters(options)
    IN
    /\ Len(scans) < MaxScans
    /\ Quiescent
    /\ ~CacheHit(query, options)
    /\ scans' = Append(scans, [NewScan(query, options) EXCEPT
                                  !.stats.totalSources = Cardinality(sel)])
    /\ calls' = [calls EXCEPT ![s] = [a \in AdapterNames |->
                                        IF a \in sel THEN "pending" ELSE "idle"]]
    /\ emitted' = [emitted EXCEPT ![s].adapterStart = Cardinality(sel)]
    /\ pc' = [pc EXCEPT ![s] = "awaiting"]
    /\ UNCHANGED <<config, now, cache, fusionVars, registryVars, sideVars>>
    /\ StreamDelivery

\* The findings of one adapter as pushed onto scan.results: arrival gives identity
Arrivals(out, base) == [i \in 1..Len(out) |-> [out[i] EXCEPT !.id = base + i]]

\* Variant: the findings go to the job that was started last
AdapterSuccessToLatest(s, a, out) ==
    /\ Exists(s)
    /\ Quiescent
    /\ calls[s][a] = "pending"
    /\ LET l == Len(scans)
           sc == scans[l]
           done == sc.stats.completedSources + 1
       IN scans' = [scans EXCEPT
              ![l].results = sc.results \o Arrivals(out, sc.stats.totalResults),
              ![l].stats.totalResults = @ + Len(out),
              ![l].stats.completedSources = done,
              ![l].progress = Progress(done, sc.stats.totalSources)]
    /\ emitted' = [emitted EXCEPT ![s].result = @ + Len(out), ![s].progress = @ + 1]
    /\ calls' = [calls EXCEPT ![s][a] = "ok"]
    /\ UNCHANGED <<config, now, cache, pc, fusionVars, registryVars, sideVars>>
    /\ StreamDelivery

\* adapter.search resolved first (lines 851-869)
AdapterSuccess(s, a, out) ==
    /\ Exists(s)
    /\ Quiescent
    /\ calls[s][a] = "pending"
    /\ LET sc == scans[s]
           done == sc.stats.completedSources + 1
       IN scans' = [scans EXCEPT
              ![s].results = sc.results \o Arrivals(out, sc.stats.totalResults),
              ![s].stats.totalResults = @ + Len(out),
              ![s].stats.completedSources = done,
              ![s].progress = Progress(done, sc.stats.totalSources)]
    /\ emitted' = [emitted EXCEPT ![s].result = @ + Len(out), ![s].progress = @ + 1]
    /\ calls' = [calls EXCEPT ![s][a] = "ok"]
    /\ UNCHANGED <<config, now, cache, pc, fusionVars, registryVars, sideVars>>
    /\ StreamDelivery

\* Variant: a failing adapter fails the whole job
AdapterCatchAborts(s, a, message, outcome) ==
    /\ LET sc == scans[s]
           done == sc.stats.completedSources + 1
       IN scans' = [scans EXCEPT
              ![s].status = "error",
              ![s].errors = Append(@, [adapter |-> a, error |-> message]),
              ![s].stats.completedSources = done,
              ![s].progress = Progress(done, sc.stats.totalSources)]
    /\ emitted' = [emitted EXCEPT ![s].adapterError[a] = @ + 1]
    /\ calls' = [calls EXCEPT ![s][a] = outcome]
    /\ UNCHANGED <<config, now, cache, pc, fusionVars, registryVars, sideVars>>
    /\ StreamDelivery

\* The catch block of one adapter call (lines 871-878)
AdapterCatch(s, a, message, outcome) ==
    /\ LET sc == scans[s]
           done == sc.stats.completedSources + 1
       IN scans' = [scans EXCEPT
              ![s].errors = Append(@, [adapter |-> a, error |-> message]),
              ![s].stats.completedSources = done,
              ![s].progress = Progress(done, sc.stats.totalSources)]
    /\ emitted' = [emitted EXCEPT ![s].adapterError[a] = @ + 1]
    /\ calls' = [calls EXCEPT ![s][a] = outcome]
    /\ UNCHANGED <<config, now, cache, pc, fusionVars, registryVars, sideVars>>
    /\ StreamDelivery

\* The total timer of scan s is due, still has an effect and fires before
\* the adapter timers of s: timers fire in deadline order, in creation order
\* on ties, and runScan creates the adapter timers first
TotalTimerFirst(s) ==
    /\ pc[s] = "awaiting"
    /\ Pending(s) # {}
    /\ now >= scans[s].startTime + config.totalTimeout
    /\ config.totalTimeout < config.defaultTimeout

\* adapter.search rejected first
AdapterRaise(s, a) ==
    /\ Exists(s)
    /\ Quiescent
    /\ calls[s][a] = "pending"
    /\ AdapterCatch(s, a, "AdapterError", "failed")

\* Variant: the adapter call is awaited without a deadline of its own
AdapterTimeoutNever(s, a) ==
    /\ FALSE
    /\ UNCHANGED vars

\* this.timeout(config.defaultTimeout) rejected first (lines 846-849, 915-919)
AdapterTimeout(s, a) ==
    /\ Exists(s)
    /\ Quiescent
    /\ calls[s][a] = "pending"
    /\ now >= scans[s].startTime + config.defaultTimeout
    /\ ~TotalTimerFirst(s)
    /\ AdapterCatch(s, a, "Timeout", "timedout")

\* Variant: findings that arrive after the race was lost are still taken
AdapterLateReturnAppends(s, a) ==
    /\ Exists(s)
    /\ Quiescent
    /\ calls[s][a] = "timedout"
    /\ \E out \in AdapterOutputs(a) :
          /\ scans' = [scans EXCEPT
                 ![s].results = @ \o Arrivals(out, scans[s].stats.totalResults),
                 ![s].stats.totalResults = @ + Len(out)]
          /\ emitted' = [emitted EXCEPT ![s].result = @ + Len(out)]
    /\ calls' = [calls EXCEPT ![s][a] = "late"]
    /\ UNCHANGED <<config, now, cache, pc, fusionVars, registryVars, sideVars>>
    /\ StreamDelivery

\* Variant: a call that settles after its race was lost is counted again
AdapterLateReturnCounts(s, a) ==
    /\ Exists(s)
    /\ Quiescent
    /\ calls[s][a] = "timedout"
    /\ scans' = [scans EXCEPT ![s].stats.completedSources = @ + 1]
    /\ calls' = [calls EXCEPT ![s][a] = "late"]
    /\ UNCHANGED <<config, now, cache, pc, emitted, fusionVars, registryVars, sideVars>>
    /\ StreamDelivery

\* adapter.search settles after its race was lost: the value goes nowhere
AdapterLateReturn(s, a) ==
    /\ Exists(s)
    /\ Quiescent
    /\ calls[s][a] = "timedout"
    /\ calls' = [calls EXCEPT ![s][a] = "late"]
    /\ UNCHANGED <<config, now, scans, cache, pc, emitted, fusionVars, registryVars, sideVars>>
    /\ StreamDelivery

\* this.timeout(config.totalTimeout) rejects the race of line 883 while
\* Promise.all is unresolved: runScan rejects and the catch handler of
\* startScan runs (lines 819-823)
TotalTimeout(s) ==
    /\ Exists(s)
    /\ Quiescent
    /\ TotalTimerFirst(s)
    /\ scans' = [scans EXCEPT
           ![s].status = "error",
           ![s].errors = Append(@, [adapter |-> "", error |-> "Timeout"])]
    /\ emitted' = [emitted EXCEPT ![s].error = @ + 1]
    /\ pc' = [pc EXCEPT ![s] = "rejected"]
    /\ UNCHANGED <<config, now, cache, calls, fusionVars, registryVars, sideVars>>
    /\ StreamDelivery

\* Variant: the cache is written whether or not caching is enabled
FinalizeAlwaysCaches(s) ==
    /\ Exists(s)
    /\ Resuming(s)
    /\ LET sc == scans[s]
           fused == Fuse(sc.results, sc.query)
       IN /\ scans' = [scans EXCEPT
                 ![s].results = fused,
                 ![s].stats.uniqueResults = Len(fused),
                 ![s].status = "completed",
                 ![s].endTime = now,
                 ![s].progress = 100]
          /\ cache' = [cache EXCEPT ![getCacheKey(sc.query, sc.options)] =
                          [present |-> TRUE, results |-> fused, timestamp |-> now,
                           writer |-> s]]
    /\ emitted' = [emitted EXCEPT ![s].complete = @ + 1]
    /\ pc' = [pc EXCEPT ![s] = "completed"]
    /\ UNCHANGED <<config, now, calls, fusionVars, registryVars, sideVars>>
    /\ StreamDelivery

\* Variant: an entry that is already in the cache is kept
FinalizeKeepsEntry(s) ==
    /\ Exists(s)
    /\ Resuming(s)
    /\ LET sc == scans[s]
           fused == Fuse(sc.results, sc.query)
           k == getCacheKey(sc.query, sc.options)
       IN /\ scans' = [scans EXCEPT
                 ![s].results = fused,
                 ![s].stats.uniqueResults = Len(fused),
                 ![s].status = "completed",
                 ![s].endTime = now,
                 ![s].progress = 100]
          /\ cache' = IF config.enableCache /\ ~cache[k].present
                      THEN [cache EXCEPT ![k] =
                              [present |-> TRUE, results |-> fused, timestamp |-> now,
                               writer |-> s]]
                      ELSE cache
    /\ emitted' = [emitted EXCEPT ![s].complete = @ + 1]
    /\ pc' = [pc EXCEPT ![s] = "completed"]
    /\ UNCHANGED <<config, now, calls, fusionVars, registryVars, sideVars>>
    /\ StreamDelivery

\* runScan after its await (lines 888-912)
Finalize(s) ==
    /\ Exists(s)
    /\ Resuming(s)
    /\ LET sc == scans[s]
           fused == Fuse(sc.results, sc.query)
       IN /\ scans' = [scans EXCEPT
                 ![s].results = fused,
                 ![s].stats.uniqueResults = Len(fused),
                 ![s].status = "completed",
                 ![s].endTime = now,
                 ![s].progress = 100]
          /\ cache' = IF config.enableCache
                      THEN [cache EXCEPT ![getCacheKey(sc.query, sc.options)] =
                               [present |-> TRUE, results |-> fused, timestamp |-> now,
                                writer |-> s]]
                      ELSE cache
    /\ emitted' = [emitted EXCEPT ![s].complete = @ + 1]
    /\ pc' = [pc EXCEPT ![s] = "completed"]
    /\ UNCHANGED <<config, now, calls, fusionVars, registryVars, sideVars>>
    /\ StreamDelivery

\* A timer that is due and would still have an effect
TimerDue ==
    \E s \in 1..Len(scans) :
        \/ Pending(s) # {} /\ now >= scans[s].startTime + config.defaultTimeout
        \/ TotalTimerFirst(s)

\* Time passes; due timers fire first
Tick ==
    /\ Quiescent
    /\ ~TimerDue
    /\ now < MaxTicks * TickMs
    /\ now' = now + TickMs
    /\ UNCHANGED <<config, scans, cache, calls, pc, emitted, fusionVars, registryVars, sideVars>>
    /\ StreamDelivery

\* What Map.prototype.get returns for a key that is not in the map
Undefined == -2

\* getScan (lines 981-983): this.scans.get(scanId)
getScan(scanId) ==
    IF scanId \in 1..Len(scans) THEN scans[scanId] ELSE Undefined

EngineNext ==
    \/ \E q \in Queries, o \in OptionChoices : StartScanCached(q, o)
    \/ \E q \in Queries, o \in OptionChoices : StartScanDispatch(q, o)
    \/ \E s \in ScanIds, a \in AdapterNames : \E out \in AdapterOutputs(a) : AdapterSuccess(s, a, out)
    \/ \E s \in ScanIds, a \in AdapterNames : AdapterRaise(s, a)
    \/ \E s \in ScanIds, a \in AdapterNames : AdapterTimeout(s, a)
    \/ \E s \in ScanIds, a \in AdapterNames : AdapterLateReturn(s, a)
    \/ \E s \in ScanIds : TotalTimeout(s)
    \/ \E s \in ScanIds : Finalize(s)
    \/ Tick

Next == EngineNext

Spec == Init /\ [][Next]_vars

----------------------------------------------------------------------------
(* The registry: registerAdapter and getAdapters, next to one running job *)

MaxRegistrations == 2

\* The adapters a caller registers: a new name, and a default name again
\* with another priority
NewAdapters ==
    { [name |-> "custom", priority |-> 1], [name |-> "github", priority |-> 3] }

\* Position of a name in the registry, 0 if it is not there
IndexOfName(reg, name) ==
    IF \E i \in 1..Len(reg) : reg[i].name = name
    THEN CHOOSE i \in 1..Len(reg) : reg[i].name = name
    ELSE 0

\* Variant: a registration always adds an entry
MapSetAppends(reg, adapter) == Append(reg, adapter)

\* Map.prototype.set(adapter.name, adapter): an existing key keeps its
\* place in the iteration order and gets the new value, a new key goes last
MapSet(reg, adapter) ==
    LET i == IndexOfName(reg, adapter.name) IN
    IF i = 0 THEN Append(reg, adapter) ELSE [reg EXCEPT ![i] = adapter]

\* Variant: a registration also enlists the adapter in the running jobs
RegisterAdapterJoinsRunning(adapter) ==
    /\ Quiescent
    /\ registerCalls < MaxRegistrations
    /\ adapters' = MapSet(adapters, adapter)
    /\ registerCalls' = registerCalls + 1
    /\ lastRegistered' = adapter
    /\ scans' = [s \in 1..Len(scans) |->
                   IF pc[s] = "awaiting" /\ calls[s][adapter.name] = "idle"
                   THEN [scans[s] EXCEPT !.stats.totalSources = @ + 1]
                   ELSE scans[s]]
    /\ calls' = [s \in ScanIds |->
                   IF s <= Len(scans) /\ pc[s] = "awaiting" /\ calls[s][adapter.name] = "idle"
                   THEN [calls[s] EXCEPT ![adapter.name] = "pending"]
                   ELSE calls[s]]
    /\ UNCHANGED <<config, now, cache, pc, emitted, streams, fusionVars, sideVars>>

\* registerAdapter (lines 769-772)
RegisterAdapter(adapter) ==
    /\ Quiescent
    /\ registerCalls < MaxRegistrations
    /\ adapters' = MapSet(adapters, adapter)
    /\ registerCalls' = registerCalls + 1
    /\ lastRegistered' = adapter
    /\ UNCHANGED <<config, now, scans, cache, calls, pc, emitted, streams, fusionVars, sideVars>>

\* getAdapters (lines 985-991): the values of the Map in iteration order
getAdapters == adapters

RegistryNext ==
    \/ \E adapter \in NewAdapters : RegisterAdapter(adapter)
    \/ \E q \in Queries, o \in OptionChoices : Len(scans) = 0 /\ StartScanDispatch(q, o)
    \/ \E s \in ScanIds, a \in AdapterNames : \E out \in AdapterOutputs(a) : AdapterSuccess(s, a, out)
    \/ \E s \in ScanIds, a \in AdapterNames : AdapterRaise(s, a)
    \/ \E s \in ScanIds, a \in AdapterNames : AdapterTimeout(s, a)
    \/ \E s \in ScanIds, a \in AdapterNames : AdapterLateReturn(s, a)
    \/ \E s \in ScanIds : TotalTimeout(s)
    \/ \E s \in ScanIds : Finalize(s)
    \/ Tick

RegistrySpec == Init /\ [][RegistryNext]_vars

----------------------------------------------------------------------------
(* ThemeManager (src/public/js/theme-manager.js) *)

MaxThemeCalls == 4

\* What localStorage may hold when the page loads
StoredValues == ThemeSet \cup {"", "invalid"}

\* THEMES.indexOf(theme), counted from 1
IndexOfTheme(theme) == CHOOSE i \in 1..Len(THEMES) : THEMES[i] = theme

\* Variant: the cycle runs the other way round
NextThemeReversed(theme) ==
    THEMES[((IndexOfTheme(theme) - 1 + Len(THEMES) - 1) % Len(THEMES)) + 1]

\* cycleTheme: THEMES[(currentIndex + 1) % THEMES.length]
NextTheme(theme) == THEMES[((IndexOfTheme(theme) - 1 + 1) % Len(THEMES)) + 1]

\* resolveTheme
ResolveTheme(theme, dark) ==
    IF theme = "system" THEN (IF dark THEN "dark" ELSE "light") ELSE theme

\* notifyListeners: every callback of the Set is called once
NotifyListeners ==
    notified' = [c \in Callbacks |-> IF c \in listeners THEN notified[c] + 1 ELSE notified[c]]

\* The body of setTheme(theme): an invalid value is logged with
\* console.warn and the call returns; a valid one is stored, resolved,
\* saved (a failing localStorage is logged and skipped), applied, announced
SetThemeBody(theme) ==
    IF theme \notin ThemeSet
    THEN UNCHANGED <<currentTheme, resolvedTheme, storedTheme, notified>>
    ELSE /\ currentTheme' = theme
         /\ resolvedTheme' = ResolveTheme(theme, prefersDark)
         /\ storedTheme' = IF storageWorks THEN theme ELSE storedTheme
         /\ NotifyListeners

SetThemeOutcome(theme) == IF theme \in ThemeSet THEN "returned" ELSE "warned"

\* Everything a ThemeManager call leaves alone
ThemeFrame == UNCHANGED <<listeners, storageWorks, prefersDark, engineVars, fusionVars, rateVars>>

\* new ThemeManager(): init, loadTheme, resolveTheme
ThemeInit ==
    /\ EngineQuiet
    /\ FusionIdle
    /\ RateIdle
    /\ storageWorks \in BOOLEAN
    /\ prefersDark \in BOOLEAN
    /\ storedTheme \in StoredValues
    /\ currentTheme = IF storageWorks /\ storedTheme \in ThemeSet THEN storedTheme ELSE "system"
    /\ resolvedTheme = ResolveTheme(currentTheme, prefersDark)
    /\ listeners = {}
    /\ notified = [c \in Callbacks |-> 0]
    /\ themeCalls = 0
    /\ lastThemeCall = NoThemeCall
    /\ cycleStart = currentTheme
    /\ cycleRun = 0

\* setTheme(theme), lines 157-178
SetTheme(theme) ==
    /\ themeCalls < MaxThemeCalls
    /\ SetThemeBody(theme)
    /\ themeCalls' = themeCalls + 1
    /\ lastThemeCall' = [op |-> "setTheme", arg |-> theme, outcome |-> SetThemeOutcome(theme)]
    /\ cycleRun' = 0
    /\ cycleStart' = IF theme \in ThemeSet THEN theme ELSE currentTheme
    /\ ThemeFrame

\* cycleTheme(), lines 180-184
CycleTheme ==
    /\ themeCalls < MaxThemeCalls
    /\ SetThemeBody(NextTheme(currentTheme))
    /\ themeCalls' = themeCalls + 1
    /\ lastThemeCall' = [op |-> "cycleTheme", arg |-> NextTheme(currentTheme),
                         outcome |-> SetThemeOutcome(NextTheme(currentTheme))]
    /\ cycleRun' = cycleRun + 1
    /\ cycleStart' = IF cycleRun = 0 THEN currentTheme ELSE cycleStart
    /\ ThemeFrame

\* toggleDarkLight()
ToggleDarkLight ==
    LET theme == IF resolvedTheme = "dark" THEN "light" ELSE "dark" IN
    /\ themeCalls < MaxThemeCalls
    /\ SetThemeBody(theme)
    /\ themeCalls' = themeCalls + 1
    /\ lastThemeCall' = [op |-> "toggleDarkLight", arg |-> theme, outcome |-> "returned"]
    /\ cycleRun' = 0
    /\ cycleStart' = theme
    /\ ThemeFrame

\* subscribe(callback)
Subscribe(c) ==
    /\ c \notin listeners
    /\ listeners' = listeners \cup {c}
    /\ UNCHANGED <<currentTheme, resolvedTheme, storedTheme, storageWorks, prefersDark,
                   notified, themeCalls, lastThemeCall, cycleStart, cycleRun,
                   engineVars, fusionVars, rateVars>>

\* the function subscribe returned
Unsubscribe(c) ==
    /\ c \in listeners
    /\ listeners' = listeners \ {c}
    /\ UNCHANGED <<currentTheme, resolvedTheme, storedTheme, storageWorks, prefersDark,
                   notified, themeCalls, lastThemeCall, cycleStart, cycleRun,
                   engineVars, fusionVars, rateVars>>

\* the mediaQuery 'change' handler of init
SystemPreferenceChange ==
    /\ themeCalls < MaxThemeCalls
    /\ prefersDark' = ~prefersDark
    /\ IF currentTheme = "system"
       THEN /\ resolvedTheme' = (IF prefersDark' THEN "dark" ELSE "light")
            /\ NotifyListeners
       ELSE UNCHANGED <<resolvedTheme, notified>>
    /\ themeCalls' = themeCalls + 1
    /\ lastThemeCall' = [op |-> "change", arg |-> "", outcome |-> "returned"]
    /\ UNCHANGED <<currentTheme, storedTheme, listeners, storageWorks, cycleStart, cycleRun,
                   engineVars, fusionVars, rateVars>>

ThemeNext ==
    \/ \E theme \in ThemeSet \cup {"invalid"} : SetTheme(theme)
    \/ CycleTheme
    \/ ToggleDarkLight
    \/ \E c \in Callbacks : Subscribe(c)
    \/ \E c \in Callbacks : Unsubscribe(c)
    \/ SystemPreferenceChange

ThemeSpec == ThemeInit /\ [][ThemeNext]_vars

----------------------------------------------------------------------------
(* The rate governor: BaseAdapter.checkRateLimit, lines 59-74 *)

\* Rate limits an adapter may be configured with
RateLimits == { [requests |-> n, window |-> 1000] : n \in {1, 2} }

RateInit ==
    /\ EngineQuiet
    /\ FusionIdle
    /\ ThemeIdle
    /\ rateLimit \in RateLimits
    /\ requestCount = 0
    /\ lastRequest = Epoch
    /\ callers = [c \in Callers |-> NotCalling]
    /\ windowPassed = 0

\* The number of calls let through since the window began, once lastRequest
\* is set to last: a window that begins at another instant starts from 0
PassedSince(last) == IF last # lastRequest THEN 0 ELSE windowPassed

RateFrame ==
    UNCHANGED <<rateLimit, config, scans, cache, calls, pc, emitted, registryVars,
                streams, fusionVars, themeVars>>

\* checkRateLimit up to its await (lines 60-68) or, if the counter is below
\* the limit, to its end (line 73)
CheckRateLimit(c) ==
    LET expired == now - lastRequest > rateLimit.window
        last == IF expired THEN now ELSE lastRequest
        count == IF expired THEN 0 ELSE requestCount
    IN
    /\ callers[c].pc = "idle"
    /\ lastRequest' = last
    /\ IF count >= rateLimit.requests
       THEN /\ callers' = [callers EXCEPT ![c] =
                              [pc |-> "sleeping",
                               wakeAt |-> now + (rateLimit.window - (now - last))]]
            /\ requestCount' = count
            /\ windowPassed' = PassedSince(last)
       ELSE /\ requestCount' = count + 1
            /\ windowPassed' = PassedSince(last) + 1
            /\ UNCHANGED callers
    /\ UNCHANGED now
    /\ RateFrame

\* checkRateLimit after its sleep (lines 69-73): the counter is zeroed, the
\* window restarted at the present time, the call counted and let through
CheckRateLimitWake(c) ==
    /\ callers[c].pc = "sleeping"
    /\ now >= callers[c].wakeAt
    /\ requestCount' = 0 + 1
    /\ lastRequest' = now
    /\ windowPassed' = PassedSince(now) + 1
    /\ callers' = [callers EXCEPT ![c] = NotCalling]
    /\ UNCHANGED now
    /\ RateFrame

\* Time passes; sleepers that are due wake first
RateTick ==
    /\ now < MaxTicks * TickMs
    /\ \A c \in Callers : callers[c].pc = "sleeping" => now < callers[c].wakeAt
    /\ now' = now + TickMs
    /\ UNCHANGED <<requestCount, lastRequest, callers, windowPassed>>
    /\ RateFrame

RateNext ==
    \/ \E c \in Callers : CheckRateLimit(c)
    \/ \E c \in Callers : CheckRateLimitWake(c)
    \/ RateTick

RateSpec == RateInit /\ [][RateNext]_vars

----------------------------------------------------------------------------
(* The engine with timers that fire *)

\* The clock does not stop at the horizon of the model while the timer of an
\* outstanding adapter call is armed
TickToDeadline ==
    /\ Quiescent
    /\ ~TimerDue
    /\ now >= MaxTicks * TickMs
    /\ \E s \in 1..Len(scans) : Pending(s) # {}
    /\ now' = now + TickMs
    /\ UNCHANGED <<config, scans, cache, calls, pc, emitted, fusionVars, registryVars, sideVars>>
    /\ StreamDelivery

\* The engine constructed with enableCache: false, so that every startScan
\* dispatches
LiveInit == Init /\ ~config.enableCache

LiveNext ==
    \/ \E q \in Queries, o \in OptionChoices : StartScanDispatch(q, o)
    \/ \E s \in ScanIds, a \in AdapterNames : \E out \in AdapterOutputs(a) : AdapterSuccess(s, a, out)
    \/ \E s \in ScanIds, a \in AdapterNames : AdapterRaise(s, a)
    \/ \E s \in ScanIds, a \in AdapterNames : AdapterTimeout(s, a)
    \/ \E s \in ScanIds, a \in AdapterNames : AdapterLateReturn(s, a)
    \/ \E s \in ScanIds : TotalTimeout(s)
    \/ \E s \in ScanIds : Finalize(s)
    \/ Tick
    \/ TickToDeadline

\* What the event loop does by itself: time passes and due timers fire.
\* Adapters are not obliged to settle.
TimerStep ==
    \/ Tick
    \/ TickToDeadline
    \/ \E s \in ScanIds, a \in AdapterNames : AdapterTimeout(s, a)
    \/ \E s \in ScanIds : TotalTimeout(s)

\* The continuation of runScan after its await (a microtask) runs: what
\* Finalize does to pc
Resume == \E s \in ScanIds : Resuming(s) /\ pc' = [pc EXCEPT ![s] = "completed"]

LiveSpec == LiveInit /\ [][LiveNext]_vars /\ WF_vars(TimerStep) /\ WF_pc(Resume)

----------------------------------------------------------------------------
(* The event stream of the server, GET /api/scan/:id/stream *)
(* (src/unnamed/part_001 lines 1062-1178), next to one job               *)

StreamFrame ==
    UNCHANGED <<config, now, scans, cache, calls, pc, emitted, registryVars,
                fusionVars, sideVars>>

\* The request handler: the init message, then either the complete
\* message and res.end() for a job that is over, or the four handlers
OpenStream(i, s) ==
    /\ Quiescent
    /\ streams[i].scan = 0
    /\ s \in 1..Len(scans)
    /\ streams' = [streams EXCEPT ![i] =
          IF scans[s].status \in {"completed", "error"}
          THEN [scan |-> s, attached |-> FALSE, closed |-> FALSE, ended |-> TRUE,
                received |-> 1, completes |-> 1]
          ELSE [scan |-> s, attached |-> TRUE, closed |-> FALSE, ended |-> FALSE,
                received |-> 0, completes |-> 0]]
    /\ StreamFrame

\* Variant: a closed connection keeps its handlers
CloseStreamKeepsHandlers(i) ==
    /\ Quiescent
    /\ streams[i].scan # 0
    /\ ~streams[i].closed
    /\ streams' = [streams EXCEPT ![i].closed = TRUE]
    /\ StreamFrame

\* req.on('close'): cleanup() takes the four handlers off (lines 1153-1170)
CloseStream(i) ==
    /\ Quiescent
    /\ streams[i].scan # 0
    /\ ~streams[i].closed
    /\ streams' = [streams EXCEPT ![i].closed = TRUE, ![i].attached = FALSE]
    /\ StreamFrame

StreamNext ==
    \/ \E i \in StreamIds, s \in ScanIds : OpenStream(i, s)
    \/ \E i \in StreamIds : CloseStream(i)
    \/ \E q \in Queries, o \in OptionChoices : Len(scans) = 0 /\ StartScanDispatch(q, o)
    \/ \E s \in ScanIds, a \in AdapterNames : \E out \in AdapterOutputs(a) : AdapterSuccess(s, a, out)
    \/ \E s \in ScanIds, a \in AdapterNames : AdapterRaise(s, a)
    \/ \E s \in ScanIds, a \in AdapterNames : AdapterTimeout(s, a)
    \/ \E s \in ScanIds, a \in AdapterNames : AdapterLateReturn(s, a)
    \/ \E s \in ScanIds : TotalTimeout(s)
    \/ \E s \in ScanIds : Finalize(s)
    \/ Tick
    \/ TickToDeadline

\* One job and its streams, with timers that fire and awaits that resume
StreamSpec == LiveInit /\ [][StreamNext]_vars /\ WF_vars(TimerStep) /\ WF_pc(Resume)

----------------------------------------------------------------------------
(* The fusion pipeline on its own *)

FusionQuery == "alice"

FusionFindings ==
    { Finding(0, u, "", "", c, v, 0) : u \in {"", "u1", "u2"}, c \in {60, 80}, v \in BOOLEAN }

\* Every list of at most MaxLen findings; a finding's id is its position
FusionInputs ==
    { [i \in 1..Len(f) |-> [f[i] EXCEPT !.id = i]] :
        f \in UNION {[1..m -> FusionFindings] : m \in 0..MaxLen} }

FusionInit ==
    /\ EngineIdle
    /\ fusionCur \in FusionInputs
    /\ fusionIn = <<>>
    /\ fusionOp = "none"
    /\ fusionPrevOp = "none"
    /\ fusionFirst = <<>>
    /\ fusionPasses = 0
    /\ fusionQuery = FusionQuery

\* deduplicateResults on the current list: on raw input, on the output of
\* deduplicateResults itself, or on an already-fused list
FusionDedupe ==
    /\ \/ fusionOp = "none"
       \/ fusionOp = "dedupe" /\ fusionPrevOp # "dedupe"
       \/ fusionOp = "sort" /\ fusionPasses < 2
    /\ fusionIn' = fusionCur
    /\ fusionCur' = deduplicateResults(fusionCur)
    /\ fusionOp' = "dedupe"
    /\ fusionPrevOp' = fusionOp
    /\ UNCHANGED <<fusionFirst, fusionPasses, fusionQuery, engineVars, sideVars>>

\* scoreResults on the deduplicated list
FusionScore ==
    /\ fusionOp = "dedupe"
    /\ fusionIn' = fusionCur
    /\ fusionCur' = scoreResults(fusionCur, fusionQuery)
    /\ fusionOp' = "score"
    /\ fusionPrevOp' = fusionOp
    /\ UNCHANGED <<fusionFirst, fusionPasses, fusionQuery, engineVars, sideVars>>

\* the final sort: one fusion is complete
FusionSort ==
    /\ fusionOp = "score"
    /\ fusionIn' = fusionCur
    /\ fusionCur' = SortByConfidence(fusionCur)
    /\ fusionOp' = "sort"
    /\ fusionPrevOp' = fusionOp
    /\ fusionFirst' = IF fusionPasses = 0 THEN SortByConfidence(fusionCur) ELSE fusionFirst
    /\ fusionPasses' = fusionPasses + 1
    /\ UNCHANGED <<fusionQuery, engineVars, sideVars>>

FusionNext ==
    \/ FusionDedupe
    \/ FusionScore
    \/ FusionSort

FusionSpec == FusionInit /\ [][FusionNext]_vars

----------------------------------------------------------------------------
(* Scoring on its own: one or two findings of any kind *)

\* Confidences an adapter may supply, also outside [0,1]
ScoreConfidences == {-20, 0, 50, 80, 100, 150}

ScoreQueries == {"alice", "ALICE"}

ScoreFindings ==
    { Finding(0, "", u, e, c, v, x) :
        u \in {"", "alice", "ALICE", "bob"}, e \in {"", "e1"},
        c \in ScoreConfidences, v \in BOOLEAN, x \in {0, 4} }

\* Every list of one or two findings; a finding's id is its position
ScoreInputs ==
    { <<[f EXCEPT !.id = 1]>> : f \in ScoreFindings }
    \cup { <<[f EXCEPT !.id = 1], [g EXCEPT !.id = 2]>> : f \in ScoreFindings, g \in ScoreFindings }

ScoreInit ==
    /\ EngineIdle
    /\ fusionCur \in ScoreInputs
    /\ fusionQuery \in ScoreQueries
    /\ fusionIn = <<>>
    /\ fusionOp = "none"
    /\ fusionPrevOp = "none"
    /\ fusionFirst = <<>>
    /\ fusionPasses = 0

\* scoreResults(results, query), lines 952-979
ScoreApply ==
    /\ fusionOp = "none"
    /\ fusionIn' = fusionCur
    /\ fusionCur' = scoreResults(fusionCur, fusionQuery)
    /\ fusionOp' = "score"
    /\ fusionPrevOp' = fusionOp
    /\ UNCHANGED <<fusionFirst, fusionPasses, fusionQuery, engineVars, sideVars>>

\* the fusion of runScan, lines 888-894
FuseApply ==
    /\ fusionOp = "none"
    /\ fusionIn' = fusionCur
    /\ fusionCur' = Fuse(fusionCur, fusionQuery)
    /\ fusionOp' = "fuse"
    /\ fusionPrevOp' = fusionOp
    /\ UNCHANGED <<fusionFirst, fusionPasses, fusionQuery, engineVars, sideVars>>

ScoreNext ==
    \/ ScoreApply
    \/ FuseApply

ScoreSpec == ScoreInit /\ [][ScoreNext]_vars

----------------------------------------------------------------------------
(* Properties of the engine (checked under Spec) *)

Terminal(s) == scans[s].status \in {"completed", "error"}

Selected(s) == {a \in AdapterNames : calls[s][a] # "idle"}

Failed(s) == {a \in AdapterNames : calls[s][a] \in {"failed", "timedout", "late"}}

\* Number of entries of the error list of scan s that name adapter a
ErrorsNaming(s, a) ==
    Cardinality({i \in 1..Len(scans[s].errors) : scans[s].errors[i].adapter = a})

IsSortedDesc(results) ==
    \A i \in 1..Len(results) : \A j \in i..Len(results) :
        results[i].confidence >= results[j].confidence

\* C1: if the total-scan deadline elapses while an adapter is still
\* outstanding, the job is finalized with what has arrived: status completed
\* (not error), results sorted by confidence, and scan:complete published.
C1_DeadlineFinalizes ==
    \A s \in 1..Len(scans) :
        pc[s] = "rejected" =>
            /\ scans[s].status = "completed"
            /\ IsSortedDesc(scans[s].results)
            /\ emitted[s].complete = 1

\* C2: once a job is terminal, no step changes its status, progress, result
\* list, error list or stats, and no further scan:result, scan:progress or
\* scan:adapter:error event is published for it.
C2_TerminalJobFrozen ==
    [][\A s \in 1..Len(scans) :
          Terminal(s) =>
              /\ scans'[s].status = scans[s].status
              /\ scans'[s].progress = scans[s].progress
              /\ scans'[s].results = scans[s].results
              /\ scans'[s].errors = scans[s].errors
              /\ scans'[s].stats = scans[s].stats
              /\ emitted'[s].result = emitted[s].result
              /\ emitted'[s].progress = emitted[s].progress
              /\ emitted'[s].adapterError = emitted[s].adapterError]_vars

\* C3: every job whose status is completed has progress 100, whether it
\* finished by dispatching adapters or was served from the cache.
C3_CompletedHasFullProgress ==
    \A s \in 1..Len(scans) :
        scans[s].status = "completed" => scans[s].progress = 100

\* C4: a job's progress never decreases from one state to the next and
\* always stays within 0..100.
C4_ProgressMonotone ==
    /\ [](\A s \in 1..Len(scans) : scans[s].progress \in 0..100)
    /\ [][\A s \in 1..Len(scans) : scans'[s].progress >= scans[s].progress]_vars

\* C4 witness: a job that went through an adapter failure and an adapter
\* timeout on its way to 100
C4_Witness ==
    \E s \in 1..Len(scans) :
        /\ scans[s].progress = 100
        /\ \E a, b \in AdapterNames : calls[s][a] = "failed" /\ calls[s][b] = "timedout"

\* C5: if every selected adapter fails (raises or exceeds its deadline), the
\* job ends completed, with an empty result list and one error entry per
\* adapter; its status never becomes error.
C5_AllFailedStillCompletes ==
    \A s \in 1..Len(scans) :
        (Selected(s) # {} /\ Failed(s) = Selected(s) /\ ~Resuming(s)) =>
            /\ scans[s].status = "completed"
            /\ scans[s].results = <<>>
            /\ Len(scans[s].errors) = Cardinality(Selected(s))

\* C6: when an adapter's search raises, exactly one error entry naming it is
\* appended and exactly one scan:adapter:error is published for it; the other
\* adapters' calls go on and their findings are still appended; the failure
\* does not touch the job's status or results.
C6_RaiseStep(s, a) ==
    /\ scans'[s].errors = Append(scans[s].errors, [adapter |-> a, error |-> "AdapterError"])
    /\ emitted'[s].adapterError[a] = emitted[s].adapterError[a] + 1
    /\ \A b \in AdapterNames \ {a} :
          /\ emitted'[s].adapterError[b] = emitted[s].adapterError[b]
          /\ calls'[s][b] = calls[s][b]
    /\ scans'[s].status = scans[s].status
    /\ scans'[s].results = scans[s].results

C6_SuccessStep(s) ==
    LET n == scans'[s].stats.totalResults - scans[s].stats.totalResults IN
    /\ n >= 0
    /\ Len(scans'[s].results) = Len(scans[s].results) + n
    /\ SubSeq(scans'[s].results, 1, Len(scans[s].results)) = scans[s].results
    /\ emitted'[s].result = emitted[s].result + n
    /\ scans'[s].errors = scans[s].errors
    /\ scans'[s].status = scans[s].status

C6_FailureIsolated ==
    /\ [](\A s \in 1..Len(scans) : \A a \in AdapterNames :
            /\ ErrorsNaming(s, a) = (IF a \in Failed(s) THEN 1 ELSE 0)
            /\ emitted[s].adapterError[a] = ErrorsNaming(s, a))
    /\ [][\A s \in 1..Len(scans) : \A a \in AdapterNames :
            /\ (calls[s][a] = "pending" /\ calls'[s][a] = "failed") => C6_RaiseStep(s, a)
            /\ (calls[s][a] = "pending" /\ calls'[s][a] = "ok" /\ Failed(s) # {})
                  => C6_SuccessStep(s)]_vars

\* C6 witness: one adapter raised, the other delivered findings afterwards,
\* and the job completed
C6_Witness ==
    \E s \in 1..Len(scans) :
        /\ calls[s]["github"] = "failed"
        /\ calls[s]["reddit"] = "ok"
        /\ scans[s].errors = <<[adapter |-> "github", error |-> "AdapterError"]>>
        /\ scans[s].results # <<>>
        /\ scans[s].status = "completed"

\* The dispatched and finalized scans with the given query and options
FinalizedFor(query, options) ==
    {s \in 1..Len(scans) :
        pc[s] = "completed" /\ scans[s].query = query /\ scans[s].options = options}

\* Those of them that no other one finalized after
LastFinalizedFor(query, options) ==
    {s \in FinalizedFor(query, options) :
        \A t \in FinalizedFor(query, options) : scans[t].endTime <= scans[s].endTime}

\* C10: with caching enabled, a startScan for a (query, options) whose scan
\* has finalized less than the TTL ago returns a job with fromCache = true,
\* status completed and the finalized scan's result list, and invokes no
\* adapter.
C10_CacheRoundTrip ==
    [][Len(scans') = Len(scans) + 1 =>
          LET n == Len(scans')
              job == scans'[n]
              last == LastFinalizedFor(job.query, job.options)
          IN (/\ config.enableCache
              /\ last # {}
              /\ \E s \in last : now - scans[s].endTime < config.cacheTTL * MsPerSecond)
             => /\ job.fromCache
                /\ job.status = "completed"
                /\ \E s \in last : job.results = scans[s].results
                /\ \A a \in AdapterNames : calls'[n][a] = "idle"
                /\ emitted'[n].adapterStart = 0
                /\ pc'[n] = "cached"]_vars

\* C10 witness: a job served from the cache, some time after the scan that
\* filled it, carrying that scan's non-empty result list
C10_Witness ==
    \E n \in 1..Len(scans) : \E s \in 1..Len(scans) :
        /\ scans[n].fromCache
        /\ pc[s] = "completed"
        /\ scans[n].startTime > scans[s].endTime
        /\ scans[n].results = scans[s].results
        /\ scans[n].results # <<>>

----------------------------------------------------------------------------
(* Properties of result fusion (checked under FusionSpec) *)

\* Positions of list whose finding has the dedupe key k
Group(list, k) == {i \in 1..Len(list) : DedupeKey(list[i]) = k}

\* The earliest finding of highest confidence among those of list with key k
IsBestOf(list, r) ==
    LET g == Group(list, DedupeKey(r)) IN
    \E i \in g :
        /\ list[i] = r
        /\ \A j \in g : list[j].confidence <= r.confidence
        /\ \A j \in g : list[j].confidence = r.confidence => i <= j

\* C7: after deduplication at most one finding per dedupe key remains, and
\* it is the one of highest confidence in its duplicate group (the
\* earliest-seen among equals).
C7_OnePerKey ==
    fusionOp = "dedupe" =>
        \A i \in 1..Len(fusionCur) :
            DedupeKey(fusionCur[i]) # <<>> =>
                /\ Group(fusionCur, DedupeKey(fusionCur[i])) = {i}
                /\ IsBestOf(fusionIn, fusionCur[i])

\* C8 as stated: fusing an already-fused list returns the same list, with
\* the same findings, order and confidences.
C8_FusionIdempotent ==
    (fusionOp = "sort" /\ fusionPasses = 2) => fusionCur = fusionFirst

\* C8 as amended: deduplicateResults applied to its own output returns the
\* same list, with the same findings, order and confidences.
C8_DedupeIdempotent ==
    (fusionOp = "dedupe" /\ fusionPrevOp = "dedupe") => fusionCur = fusionIn

\* C8 witness: deduplication has run on a deduplicated list that lost a
\* finding the first time round and still holds two findings of one key
C8_Witness ==
    /\ fusionOp = "dedupe"
    /\ fusionPrevOp = "dedupe"
    /\ \E i \in 1..Len(fusionCur) :
          /\ fusionCur[i].id > i
          /\ DedupeKey(fusionCur[i]) # <<>>
          /\ Cardinality(Group(fusionCur, DedupeKey(fusionCur[i]))) > 1

\* Findings of the input that deduplication left out
Discarded == {i \in 1..Len(fusionIn) :
                 \A j \in 1..Len(fusionCur) : fusionCur[j].id # fusionIn[i].id}

\* C9: for every finding discarded by deduplication, a finding with the same
\* dedupe key survives whose confidence is greater than or equal to it.
C9_SurvivorAtLeastAsConfident ==
    fusionOp = "dedupe" =>
        \A i \in Discarded :
            \E j \in 1..Len(fusionCur) :
                /\ DedupeKey(fusionCur[j]) = DedupeKey(fusionIn[i])
                /\ fusionCur[j].confidence >= fusionIn[i].confidence

\* C9 witness: deduplication discarded a finding of lower and a finding of
\* equal confidence
C9_Witness ==
    /\ fusionOp = "dedupe"
    /\ \E i, k \in Discarded : \E j \in 1..Len(fusionCur) :
          /\ DedupeKey(fusionCur[j]) = DedupeKey(fusionIn[i])
          /\ DedupeKey(fusionCur[j]) = DedupeKey(fusionIn[k])
          /\ fusionCur[j].confidence > fusionIn[i].confidence
          /\ fusionCur[j].confidence = fusionIn[k].confidence

----------------------------------------------------------------------------
(* Further properties of the engine (checked under Spec) *)

\* C11: a cache entry whose age (now minus write time) is at least the TTL is
\* never served: a startScan that finds only such an entry for its key
\* dispatches to the selected adapters and returns a running job that is not
\* marked fromCache.
C11_StaleEntryNotServed ==
    [][\A q \in Queries, o \in OptionChoices :
          LET k == getCacheKey(q, o)
              s == Len(scans) + 1
          IN (/\ Len(scans') = Len(scans) + 1
              /\ scans'[s].query = q
              /\ scans'[s].options = o
              /\ cache[k].present
              /\ now - cache[k].timestamp >= config.cacheTTL * MsPerSecond)
             => /\ ~scans'[s].fromCache
                /\ scans'[s].status = "running"
                /\ scans'[s].results = <<>>
                /\ pc'[s] = "awaiting"
                /\ \A a \in SelectedAdapters(o) : calls'[s][a] = "pending"
                /\ emitted'[s].adapterStart = Cardinality(SelectedAdapters(o))
                /\ emitted'[s].complete = 0]_vars

\* C11 witness: a scan was dispatched to an adapter although the cache holds
\* an entry for its key, written a full time-to-live or more before the scan
\* started
C11_Witness ==
    \E s \in 1..Len(scans) :
        LET e == cache[getCacheKey(scans[s].query, scans[s].options)] IN
        /\ config.enableCache
        /\ pc[s] = "awaiting"
        /\ Pending(s) # {}
        /\ ~scans[s].fromCache
        /\ e.present
        /\ scans[s].startTime - e.timestamp >= config.cacheTTL * MsPerSecond

\* C12: whenever a job's status is terminal (completed or error) its endTime
\* is set, and an endTime once set is never reset to null.
C12_TerminalHasEndTime ==
    /\ [](\A s \in 1..Len(scans) : Terminal(s) => scans[s].endTime # Null)
    /\ [][\A s \in 1..Len(scans) :
            scans[s].endTime # Null => scans'[s].endTime # Null]_vars

\* C16: for each job, every scan:result, scan:progress and
\* scan:adapter:error event is published before the job's scan:complete
\* event, and at most one scan:complete event is published per job.
C16_EventsBeforeComplete ==
    /\ [](\A s \in ScanIds : emitted[s].complete <= 1)
    /\ [][\A s \in ScanIds :
            emitted[s].complete >= 1 =>
                /\ emitted'[s].result = emitted[s].result
                /\ emitted'[s].progress = emitted[s].progress
                /\ emitted'[s].adapterError = emitted[s].adapterError]_vars

\* C16 witness: scan:complete was published for a job after result, progress
\* and adapter-error events of that job
C16_Witness ==
    \E s \in 1..Len(scans) :
        /\ emitted[s].complete = 1
        /\ emitted[s].result > 0
        /\ emitted[s].progress > 0
        /\ \E a \in AdapterNames : emitted[s].adapterError[a] > 0

\* C18: an adapter call still unresolved when its per-adapter deadline
\* (defaultTimeout) elapses is recorded, no later than that instant, as an
\* adapter error with message Timeout and counted as a completed source;
\* when the adapter returns afterwards nothing is appended to the job and no
\* event is published.
C18_TimeoutRecordedLateIgnored ==
    [][\A s \in 1..Len(scans) : \A a \in AdapterNames :
          /\ (/\ calls[s][a] = "pending"
              /\ now >= scans[s].startTime + config.defaultTimeout) => now' = now
          /\ (calls[s][a] = "pending" /\ calls'[s][a] = "timedout") =>
                /\ now >= scans[s].startTime + config.defaultTimeout
                /\ scans'[s].errors =
                       Append(scans[s].errors, [adapter |-> a, error |-> "Timeout"])
                /\ scans'[s].stats.completedSources = scans[s].stats.completedSources + 1
                /\ scans'[s].results = scans[s].results
                /\ emitted'[s].adapterError[a] = emitted[s].adapterError[a] + 1
                /\ emitted'[s].result = emitted[s].result
          /\ calls[s][a] \in {"timedout", "late"} =>
                /\ calls'[s][a] \in {"timedout", "late"}
                /\ calls'[s][a] # calls[s][a] =>
                       /\ scans'[s] = scans[s]
                       /\ emitted'[s] = emitted[s]]_vars

\* C18 witness: a job was finalized with the Timeout of an adapter on its
\* error list, and that adapter has returned since
C18_Witness ==
    \E s \in 1..Len(scans) : \E a \in AdapterNames :
        /\ calls[s][a] = "late"
        /\ scans[s].status = "completed"
        /\ ErrorsNaming(s, a) = 1
        /\ \E i \in 1..Len(scans[s].errors) :
              scans[s].errors[i] = [adapter |-> a, error |-> "Timeout"]

\* The allow-list of the options names no registered adapter
NoneSelected(options) ==
    options.has /\ Range(options.adapters) \cap RegisteredNames = {}

\* C19: a scan dispatched with no selected adapters (an allow-list of only
\* unknown names) reaches status completed without waiting for any adapter
\* or deadline, with progress 100, an empty result list and an empty error
\* list.
C19_NoAdaptersCompletesAtOnce ==
    /\ [](\A s \in 1..Len(scans) :
            (NoneSelected(scans[s].options) /\ ~scans[s].fromCache) =>
                /\ pc[s] \in {"awaiting", "completed"}
                /\ scans[s].stats.totalSources = 0
                /\ scans[s].results = <<>>
                /\ scans[s].errors = <<>>
                /\ pc[s] = "completed" =>
                       /\ scans[s].status = "completed"
                       /\ scans[s].progress = 100
                       /\ scans[s].endTime = scans[s].startTime)
    /\ [][\A s \in 1..Len(scans) :
            (NoneSelected(scans[s].options) /\ pc[s] = "awaiting") =>
                pc'[s] = "completed"]_vars

\* C19 witness: a job whose allow-list names only an unknown adapter was
\* dispatched and is completed, while a job started before it still waits
C19_Witness ==
    \E s, t \in 1..Len(scans) :
        /\ NoneSelected(scans[s].options)
        /\ ~scans[s].fromCache
        /\ pc[s] = "completed"
        /\ scans[s].progress = 100
        /\ t < s
        /\ pc[t] = "awaiting"

\* C20: names in options.adapters that are not registered are ignored: the
\* scan dispatches exactly the registered adapters named in the list,
\* totalSources counts only those, no error-list entry names anything else,
\* and the job's status does not become error because of them.
C20_UnknownNamesIgnored ==
    \A s \in 1..Len(scans) :
        (scans[s].options.has /\ pc[s] \notin {"none", "cached"}) =>
            LET wanted == Range(scans[s].options.adapters) \cap RegisteredNames IN
            /\ Selected(s) = wanted
            /\ scans[s].stats.totalSources = Cardinality(wanted)
            /\ emitted[s].adapterStart = Cardinality(wanted)
            /\ \A i \in 1..Len(scans[s].errors) :
                  \/ scans[s].errors[i].adapter \in wanted
                  \/ scans[s].errors[i].adapter = "" /\ pc[s] = "rejected"
            /\ scans[s].status = "error" => (pc[s] = "rejected" /\ wanted # {})

\* C20 witness: a job asked for github and an unknown adapter; github alone
\* was called and the job completed without any error entry
C20_Witness ==
    \E s \in 1..Len(scans) :
        /\ scans[s].options.adapters = <<"github", "nosuch">>
        /\ pc[s] = "completed"
        /\ scans[s].status = "completed"
        /\ calls[s] = [a \in AdapterNames |-> IF a = "github" THEN "ok" ELSE "idle"]
        /\ scans[s].stats.totalSources = 1
        /\ scans[s].errors = <<>>

\* C15: after finalization a job's result list is in descending order of
\* scored confidence, and findings of equal confidence appear in the order
\* in which they arrived.
C15_SortedStable ==
    \A s \in 1..Len(scans) :
        pc[s] \in {"completed", "cached"} =>
            \A i, j \in 1..Len(scans[s].results) :
                i < j =>
                    \/ scans[s].results[i].confidence > scans[s].results[j].confidence
                    \/ /\ scans[s].results[i].confidence = scans[s].results[j].confidence
                       /\ scans[s].results[i].id < scans[s].results[j].id

\* C15 witness: a finalized list holds two findings of equal confidence, of
\* which the finding of the adapter of lower priority arrived first and
\* stands first
C15_Witness ==
    \E s \in 1..Len(scans) :
        /\ pc[s] = "completed"
        /\ \E i, j \in 1..Len(scans[s].results) :
              /\ i < j
              /\ scans[s].results[i].confidence = scans[s].results[j].confidence
              /\ scans[s].results[i].url = ""
              /\ scans[s].results[j].url = "u1"

\* C17: every dispatched job eventually reaches a terminal status, even if
\* some adapter's search never resolves, provided timers fire (checked under
\* LiveSpec).
C17_EveryJobTerminates ==
    \A s \in ScanIds :
        (pc[s] = "awaiting") ~> (pc[s] \in {"completed", "rejected"} /\ Terminal(s))

\* C17 witness: a job is terminal although none of the adapters it called
\* has ever returned
C17_Witness ==
    \E s \in 1..Len(scans) :
        /\ Terminal(s)
        /\ Selected(s) = RegisteredNames
        /\ \A a \in RegisteredNames : calls[s][a] = "timedout"

\* C21: startScan returns without waiting for any adapter to resolve, and
\* the job it returns is either running or completed with fromCache=true,
\* never completed without fromCache and never in status error.
C21_ReturnsAtOnce ==
    [][Len(scans') = Len(scans) + 1 =>
          LET s == Len(scans')
              job == scans'[s]
          IN /\ now' = now
             /\ \/ /\ job.status = "running"
                   /\ ~job.fromCache
                   /\ job.endTime = Null
                   /\ job.stats.completedSources = 0
                   /\ \A a \in AdapterNames : calls'[s][a] \in {"idle", "pending"}
                \/ /\ job.status = "completed"
                   /\ job.fromCache]_vars

\* C21 witness: startScan has handed back a running job whose adapters are
\* all outstanding, after an earlier job had run to completion
C21_Witness ==
    \E s, t \in 1..Len(scans) :
        /\ t < s
        /\ scans[t].status = "completed"
        /\ scans[s].status = "running" /\ ~scans[s].fromCache
        /\ Pending(s) = Selected(s) /\ Pending(s) # {}

\* Identifiers a caller may ask for: every identifier that can be issued and
\* one that never is
AskedIds == ScanIds \cup {MaxScans + 1}

\* C22: after startScan has returned a job with identifier id, getScan(id)
\* returns that same job in every later state (jobs are never removed), and
\* getScan of an identifier that was never issued returns null.
C22_JobsStayRetrievable ==
    /\ [](\A id \in AskedIds :
            IF id \in 1..Len(scans)
            THEN getScan(id) = scans[id]
            ELSE getScan(id) = Null)
    /\ [][\A id \in 1..Len(scans) :
            /\ id \in 1..Len(scans')
            /\ scans'[id].query = scans[id].query
            /\ scans'[id].options = scans[id].options
            /\ scans'[id].startTime = scans[id].startTime]_vars

----------------------------------------------------------------------------
(* deduplicateResults on pairs of findings that differ in every dedupe field *)

DedupeValues == {"", "x"}

\* Findings over all three dedupe fields; the value x can sit in any of them
DedupeFindings ==
    { Finding(0, u, n, e, c, FALSE, 0) :
        u \in DedupeValues, n \in DedupeValues \cup {"y"}, e \in DedupeValues,
        c \in {60, 80} }

\* Every list of one or two findings; a finding's id is its position
DedupeInputs ==
    { <<[f EXCEPT !.id = 1]>> : f \in DedupeFindings }
    \cup { <<[f EXCEPT !.id = 1], [g EXCEPT !.id = 2]>> :
             f \in DedupeFindings, g \in DedupeFindings }

DedupeInit ==
    /\ EngineIdle
    /\ fusionCur \in DedupeInputs
    /\ fusionQuery = FusionQuery
    /\ fusionIn = <<>>
    /\ fusionOp = "none"
    /\ fusionPrevOp = "none"
    /\ fusionFirst = <<>>
    /\ fusionPasses = 0

\* deduplicateResults(results), lines 925-950
DedupeApply ==
    /\ fusionOp = "none"
    /\ fusionIn' = fusionCur
    /\ fusionCur' = deduplicateResults(fusionCur)
    /\ fusionOp' = "dedupe"
    /\ fusionPrevOp' = fusionOp
    /\ UNCHANGED <<fusionFirst, fusionPasses, fusionQuery, engineVars, sideVars>>

DedupeNext == DedupeApply

DedupeSpec == DedupeInit /\ [][DedupeNext]_vars

----------------------------------------------------------------------------
(* Properties of scoring (checked under ScoreSpec) *)

\* Finding a is verified and carries the query as its username; finding b is
\* the same finding unverified and under another username; the confidence
\* both came with lies in [0,1]
BoostedPair(a, b, query) ==
    /\ a.verified /\ a.username = query
    /\ ~b.verified /\ b.username # query
    /\ a.confidence = b.confidence
    /\ a.confidence \in 0..100
    /\ a.url = b.url /\ a.email = b.email /\ a.extra = b.extra

\* scoreResults has just run on two findings that form a boosted pair
ScoredBoostedPair ==
    /\ fusionOp = "score"
    /\ Len(fusionIn) = 2
    /\ BoostedPair(fusionIn[1], fusionIn[2], fusionQuery)

\* C13: for every base confidence in [0,1] and every query, after scoring a
\* finding with verified=true and username equal to the query has strictly
\* higher confidence than an otherwise-identical finding with verified=false
\* and a non-matching username.
C13_BoostedStrictlyHigher ==
    ScoredBoostedPair => fusionCur[1].confidence > fusionCur[2].confidence

\* C13 as amended: the verified, matching finding scores at least as high,
\* and strictly higher whenever the other finding scores below 1.
C13_BoostedHigherBelowCap ==
    ScoredBoostedPair =>
        /\ fusionCur[1].confidence >= fusionCur[2].confidence
        /\ fusionCur[2].confidence < 100 =>
               fusionCur[1].confidence > fusionCur[2].confidence

\* C13 witness: a boosted pair was scored; the verified, matching finding
\* was cut to 1 and still lies above the other
C13_Witness ==
    /\ ScoredBoostedPair
    /\ RawScore(fusionIn[1], fusionQuery) > 100
    /\ fusionCur[1].confidence = 100
    /\ fusionCur[2].confidence < 100
    /\ fusionCur[2].confidence > fusionIn[2].confidence

\* C14: after finalization every finding of the result list has confidence
\* within [0,1], and its level is high exactly when confidence >= 0.8,
\* medium exactly when 0.5 <= confidence < 0.8, and low otherwise, whatever
\* confidence the adapter supplied.
C14_ConfidenceNormalised ==
    fusionOp \in {"score", "fuse"} =>
        \A i \in 1..Len(fusionCur) :
            LET c == fusionCur[i].confidence
                level == fusionCur[i].confidenceLevel
            IN /\ c >= 0 /\ c <= 100
               /\ level \in {"high", "medium", "low"}
               /\ level = "high" <=> c >= 80
               /\ level = "medium" <=> (c >= 50 /\ c < 80)
               /\ level = "low" <=> c < 50

\* C14 witness: a fused list holds a finding that came with confidence 1.5
\* and one that came with -0.2, now at 1 (high) and at 0 (low)
C14_Witness ==
    /\ fusionOp = "fuse"
    /\ Len(fusionCur) = 2
    /\ {fusionIn[1].confidence, fusionIn[2].confidence} = {150, -20}
    /\ fusionCur[1].confidence = 100 /\ fusionCur[1].confidenceLevel = "high"
    /\ fusionCur[2].confidence = 0 /\ fusionCur[2].confidenceLevel = "low"

----------------------------------------------------------------------------
(* Properties of the scoring formula and of the duplicate groups *)

\* The score the formula of the specification gives a finding, in hundredths
FormulaScore(r, query) ==
    LET raw == r.confidence
               + (IF r.verified THEN 20 ELSE 0)
               + (IF Lower(r.username) = Lower(query) THEN 30 ELSE 0)
               + (10 * FilledFields(r)) \div 5
    IN IF raw > 100 THEN 100 ELSE IF raw < 0 THEN 0 ELSE raw

\* C29: for every finding whose own confidence c is in [0,1], c = 0
\* included, the confidence after scoring is clamp(c + 0.2[verified]
\* + 0.3[username equals the query ignoring case] + 0.1 * filled/5, 0, 1).
C29_ScoreFollowsFormula ==
    fusionOp = "score" =>
        \A i \in 1..Len(fusionIn) :
            (fusionIn[i].confidence >= 0 /\ fusionIn[i].confidence <= 100) =>
                fusionCur[i].confidence = FormulaScore(fusionIn[i], fusionQuery)

\* The first non-empty dedupe field of a finding, with its name
FirstDedupeField(r) ==
    IF r.url # "" THEN <<"url", r.url>>
    ELSE IF r.username # "" THEN <<"username", r.username>>
    ELSE IF r.email # "" THEN <<"email", r.email>>
    ELSE <<>>

\* The values of the non-empty dedupe fields of a finding, in field order
PresentDedupeValues(r) ==
    (IF r.url # "" THEN <<r.url>> ELSE <<>>)
    \o (IF r.username # "" THEN <<r.username>> ELSE <<>>)
    \o (IF r.email # "" THEN <<r.email>> ELSE <<>>)

\* A pair was deduplicated whose second finding does not beat the first: the
\* second is dropped exactly when the two are in the same duplicate group
PairDeduplicated ==
    /\ fusionOp = "dedupe"
    /\ Len(fusionIn) = 2
    /\ fusionIn[2].confidence <= fusionIn[1].confidence

\* A finding without any dedupe field is still in the output
KeylessKept ==
    fusionOp = "dedupe" =>
        \A i \in 1..Len(fusionIn) :
            FirstDedupeField(fusionIn[i]) = <<>> =>
                \E j \in 1..Len(fusionCur) : fusionCur[j] = fusionIn[i]

\* C30: two findings are in the same duplicate group exactly when the first
\* non-empty dedupe field of each (order url, username, email) is the same
\* field with the same value, whatever the remaining dedupe fields hold; a
\* finding with no non-empty dedupe field is never removed.
C30_GroupedByFirstField ==
    /\ PairDeduplicated =>
          (Len(fusionCur) = 1 <=>
              /\ FirstDedupeField(fusionIn[1]) # <<>>
              /\ FirstDedupeField(fusionIn[1]) = FirstDedupeField(fusionIn[2]))
    /\ KeylessKept

\* C30 (amended): two findings are in the same duplicate group exactly when
\* the values of all their non-empty dedupe fields, in the order url,
\* username, email, are the same list: every non-empty field takes part in
\* the key and the name of the field a value sits in does not; a finding
\* with no non-empty dedupe field is never removed.
C30_GroupedByAllFields ==
    /\ PairDeduplicated =>
          (Len(fusionCur) = 1 <=>
              /\ PresentDedupeValues(fusionIn[1]) # <<>>
              /\ PresentDedupeValues(fusionIn[1]) = PresentDedupeValues(fusionIn[2]))
    /\ KeylessKept

\* C30 witness: two findings with the same url and different usernames were
\* deduplicated and both are still there
C30_Witness ==
    /\ PairDeduplicated
    /\ fusionIn[1].url # "" /\ fusionIn[1].url = fusionIn[2].url
    /\ fusionIn[1].username # fusionIn[2].username
    /\ Len(fusionCur) = 2

----------------------------------------------------------------------------
(* Properties of the registry (checked under RegistrySpec) *)

\* C24: getAdapters returns the registered adapters ordered by ascending
\* priority, for any sequence of registrations.
C24_ListedByPriority ==
    \A i, j \in 1..Len(getAdapters) :
        i < j => getAdapters[i].priority <= getAdapters[j].priority

\* A registerAdapter call is this step
RegisterStep == registerCalls' = registerCalls + 1

\* C25: registerAdapter stores the adapter under its name in place of any
\* adapter registered under that name before: the registry never holds
\* two adapters of one name, the adapter just registered is the one listed
\* under its name, every other name keeps its adapter, registering the same
\* adapter a second time changes nothing, and no scan job, adapter call,
\* event count or cache entry is touched.
C25_RegisterReplacesByName ==
    /\ [](\A i, j \in 1..Len(adapters) :
              adapters[i].name = adapters[j].name => i = j)
    /\ [][RegisterStep =>
            /\ \E i \in 1..Len(adapters') : adapters'[i] = lastRegistered'
            /\ \A i \in 1..Len(adapters) :
                  adapters[i].name # lastRegistered'.name =>
                      \E j \in 1..Len(adapters') : adapters'[j] = adapters[i]
            /\ \A j \in 1..Len(adapters') :
                  adapters'[j].name # lastRegistered'.name =>
                      \E i \in 1..Len(adapters) : adapters[i] = adapters'[j]
            /\ (lastRegistered' = lastRegistered => adapters' = adapters)
            /\ UNCHANGED <<config, now, scans, cache, calls, pc, emitted>>]_vars

\* C25 witness: the same adapter was registered twice in a row over a
\* default adapter of its name, while a job was under way
C25_Witness ==
    /\ registerCalls = 2
    /\ lastRegistered = [name |-> "github", priority |-> 3]
    /\ Len(adapters) = 2
    /\ adapters[1] = lastRegistered
    /\ \E s \in 1..Len(scans) : scans[s].status = "running" /\ Pending(s) # {}

----------------------------------------------------------------------------
(* Properties of the ThemeManager (checked under ThemeSpec) *)

\* setTheme has just been called with a value that is no theme
InvalidSetThemeStep ==
    /\ themeCalls' = themeCalls + 1
    /\ lastThemeCall'.op = "setTheme"
    /\ lastThemeCall'.arg \notin {"system", "dark", "light"}

\* An invalid setTheme call leaves the manager as it was
InvalidSetThemeFrame ==
    [][InvalidSetThemeStep =>
          UNCHANGED <<currentTheme, resolvedTheme, storedTheme, listeners, notified>>]_vars

\* C26: setTheme called with a value outside {system, dark, light} is
\* rejected with an 'Invalid theme' error, and the current theme, the
\* persisted preference and the subscribers are untouched, no notification
\* being sent.
C26_InvalidThemeRejected ==
    [][InvalidSetThemeStep =>
          /\ lastThemeCall'.outcome = "thrown"
          /\ UNCHANGED <<currentTheme, resolvedTheme, storedTheme, listeners, notified>>]_vars

\* cycleTheme has just been called
CycleStep == themeCalls' = themeCalls + 1 /\ lastThemeCall'.op = "cycleTheme"

\* The fixed order system, dark, light, system
CycleOrder ==
    \/ currentTheme = "system" /\ currentTheme' = "dark"
    \/ currentTheme = "dark" /\ currentTheme' = "light"
    \/ currentTheme = "light" /\ currentTheme' = "system"

\* Every callback subscribed when the call is made is called once, no other
EachSubscriberOnce ==
    \A c \in Callbacks :
        notified'[c] = notified[c] + (IF c \in listeners THEN 1 ELSE 0)

\* C27: cycleTheme advances the preference in the order system, dark,
\* light, system, so three consecutive calls return to the preference they
\* started from; each call persists the new preference and notifies every
\* current subscriber exactly once.
C27_CyclePersistsAndNotifies ==
    /\ [][CycleStep =>
            /\ CycleOrder
            /\ storedTheme' = currentTheme'
            /\ EachSubscriberOnce]_vars
    /\ [](cycleRun = 3 => currentTheme = cycleStart)

\* C27 (amended): as C27, but the new preference is persisted when
\* localStorage accepts the write; when the write fails the stored value
\* stays as it was, and the preference still advances and the subscribers
\* are still notified.
C27_CyclePersistsWhenStorageWorks ==
    /\ [][CycleStep =>
            /\ CycleOrder
            /\ storedTheme' = (IF storageWorks THEN currentTheme' ELSE storedTheme)
            /\ EachSubscriberOnce]_vars
    /\ [](cycleRun = 3 => currentTheme = cycleStart)

\* C27 witness: three cycleTheme calls in a row with a subscriber that
\* heard each of them, on a page whose localStorage rejects writes
C27_Witness ==
    /\ cycleRun = 3
    /\ currentTheme = cycleStart
    /\ \E c \in listeners : notified[c] = 3
    /\ ~storageWorks
    /\ storedTheme # currentTheme

----------------------------------------------------------------------------
(* Properties of the rate governor (checked under RateSpec) *)

----------------------------------------------------------------------------
(* Properties of the event stream (checked under StreamSpec) *)

\* The client of stream i closes its connection in this step
CloseStep(i) == streams[i].scan # 0 /\ ~streams[i].closed /\ streams'[i].closed

\* C23: closing a streaming client connection only detaches that
\* subscriber: the step changes no field of any scan job and no adapter
\* call, leaves the other streams as they are and the job retrievable
\* through getScan; no event published after the close is delivered to the
\* closed subscriber; and the job of a closed stream still reaches a
\* terminal state.
C23_CloseOnlyDetaches ==
    /\ [][\A i \in StreamIds :
            CloseStep(i) =>
                /\ UNCHANGED <<scans, calls, pc, cache, emitted, now>>
                /\ \A j \in StreamIds \ {i} : streams'[j] = streams[j]
                /\ getScan(streams[i].scan) = scans'[streams[i].scan]]_vars
    /\ [][\A i \in StreamIds :
            streams[i].closed =>
                /\ streams'[i].closed
                /\ streams'[i].received = streams[i].received]_vars
    /\ \A s \in ScanIds :
          (\E i \in StreamIds : streams[i].closed /\ streams[i].scan = s)
              ~> (s \in 1..Len(scans) /\ Terminal(s))

\* C23 witness: of two streams on one job, one was closed while the job
\* ran; the job completed and the other stream heard more, up to complete
C23_Witness ==
    \E i, j \in StreamIds :
        /\ streams[i].scan # 0 /\ streams[j].scan = streams[i].scan
        /\ streams[i].closed /\ ~streams[i].ended
        /\ streams[j].ended /\ ~streams[j].closed
        /\ streams[j].received > streams[i].received + 1
        /\ scans[streams[i].scan].status = "completed"

----------------------------------------------------------------------------
(* Properties of the cache and of concurrent jobs (checked under Spec) *)

\* startScan hands back job s in this step
HandedBack(s) == Len(scans) = s - 1 /\ Len(scans') = s

\* C31: whenever a job handed to a caller carries the results of a scan in
\* which at least one adapter failed, the job's error list is non-empty;
\* this includes a job served from the cache entry such a scan wrote.
C31_ErrorsComeWithResults ==
    /\ [](\A s \in 1..Len(scans) :
            (~scans[s].fromCache /\ Failed(s) # {}) => scans[s].errors # <<>>)
    /\ [][\A s \in ScanIds :
            (HandedBack(s) /\ scans'[s].fromCache) =>
                LET w == cache[getCacheKey(scans'[s].query, scans'[s].options)].writer
                IN Failed(w) # {} => scans'[s].errors # <<>>]_vars

\* Scan s was dispatched and has finalized
Finalized(s) == scans[s].status = "completed" /\ ~scans[s].fromCache

\* The cache key of scan s
KeyOf(s) == getCacheKey(scans[s].query, scans[s].options)

\* C32: the cache is written only when a scan finalizes with status
\* completed and caching is enabled: every entry holds the final fused
\* result list of the most recently finalized scan of its key, no entry is
\* written from a running or error-status job, and with caching disabled
\* the cache stays empty and no job has fromCache = true.
C32_CacheWrittenAtFinalization ==
    /\ [](\A k \in CacheKeys :
            cache[k].present =>
                LET w == cache[k].writer IN
                /\ config.enableCache
                /\ w \in 1..Len(scans)
                /\ Finalized(w)
                /\ KeyOf(w) = k
                /\ cache[k].results = scans[w].results
                /\ cache[k].timestamp = scans[w].endTime
                /\ \A t \in 1..Len(scans) :
                      (Finalized(t) /\ KeyOf(t) = k) =>
                          scans[t].endTime <= scans[w].endTime)
    /\ [](~config.enableCache =>
            /\ \A k \in CacheKeys : ~cache[k].present
            /\ \A s \in 1..Len(scans) : ~scans[s].fromCache)
    /\ [][cache' # cache =>
            \E s \in 1..Len(scans) :
                /\ scans[s].status = "running"
                /\ scans'[s].status = "completed"
                /\ cache'[KeyOf(s)].writer = s
                /\ \A k \in CacheKeys \ {KeyOf(s)} : cache'[k] = cache[k]]_vars

\* C32 witness: two scans of one key have finalized, the second later than
\* the first and with another result list, and the entry is the second's
C32_Witness ==
    \E s, t \in 1..Len(scans) :
        /\ s # t
        /\ Finalized(s) /\ Finalized(t)
        /\ KeyOf(s) = KeyOf(t)
        /\ scans[s].endTime < scans[t].endTime
        /\ scans[s].results # scans[t].results
        /\ cache[KeyOf(t)].present
        /\ cache[KeyOf(t)].writer = t
        /\ cache[KeyOf(t)].results = scans[t].results

\* Job s is handed back in this step while job t, of the same key, is running
SecondWhileFirstRuns(t, s) ==
    /\ t \in 1..Len(scans)
    /\ HandedBack(s)
    /\ scans[t].status = "running"
    /\ getCacheKey(scans'[s].query, scans'[s].options) = KeyOf(t)

\* Job s handed back in this step has its own adapter calls and its own,
\* empty, result list, and job t is left as it was
DispatchedApartFrom(t, s) ==
    /\ ~scans'[s].fromCache
    /\ scans'[s].status = "running"
    /\ scans'[s].results = <<>>
    /\ \A a \in AdapterNames :
          calls'[s][a] = IF a \in SelectedAdapters(scans'[s].options)
                         THEN "pending" ELSE "idle"
    /\ scans'[t] = scans[t]
    /\ calls'[t] = calls[t]

\* Scans s and t of one key were both dispatched and each started strictly
\* before the other finalized
RanTogether(s, t) ==
    /\ s # t
    /\ KeyOf(s) = KeyOf(t)
    /\ Finalized(s) /\ Finalized(t)
    /\ scans[s].startTime < scans[t].endTime
    /\ scans[t].startTime < scans[s].endTime

\* The entry of key k is the result list of a scan that finalized last among
\* the finalized scans of k
HoldsLastFinalized(k) ==
    LET w == cache[k].writer IN
    /\ cache[k].present
    /\ w \in 1..Len(scans)
    /\ Finalized(w) /\ KeyOf(w) = k
    /\ cache[k].results = scans[w].results
    /\ \A u \in 1..Len(scans) :
          (Finalized(u) /\ KeyOf(u) = k) => scans[u].endTime <= scans[w].endTime

\* C33: if two startScan calls for one (query, options) are made while
\* neither scan has finalized, both dispatch to the adapters (the second is
\* neither served from the cache nor joined to the first), each job has its
\* own identifier and result list, and after both finalize the cache entry
\* holds the result list of whichever finalized last.
C33_SameKeyBothDispatch ==
    /\ [][\A t, s \in ScanIds :
            SecondWhileFirstRuns(t, s) => DispatchedApartFrom(t, s)]_vars
    /\ [](\A s, t \in 1..Len(scans) :
            RanTogether(s, t) => HoldsLastFinalized(KeyOf(s)))

\* A scan of key k that could still be served from the cache: it finalized
\* less than cacheTTL ago
FinalizedLately(k) ==
    \E u \in 1..Len(scans) :
        /\ Finalized(u) /\ KeyOf(u) = k
        /\ now - scans[u].endTime < config.cacheTTL * MsPerSecond

\* C33 (amended): the second call dispatches apart from the first when no
\* scan of the key has finalized within cacheTTL, and with caching enabled
\* the entry of a key holds the result list of the scan of that key that
\* finalized last.
C33_SameKeyBothDispatchOnMiss ==
    /\ [][\A t, s \in ScanIds :
            (SecondWhileFirstRuns(t, s) /\ ~FinalizedLately(KeyOf(t))) =>
                DispatchedApartFrom(t, s)]_vars
    /\ [](config.enableCache =>
            \A s \in 1..Len(scans) : Finalized(s) => HoldsLastFinalized(KeyOf(s)))

\* C33 witness: two scans of one key ran together, ended with different
\* result lists, and the entry is the list of the one that finalized later
C33_Witness ==
    \E s, t \in 1..Len(scans) :
        /\ RanTogether(s, t)
        /\ scans[t].endTime < scans[s].endTime
        /\ scans[s].results # scans[t].results
        /\ cache[KeyOf(s)].present
        /\ cache[KeyOf(s)].writer = s
        /\ cache[KeyOf(s)].results = scans[s].results

\* An adapter call of job s settles in this step
CallSettles(s) == s \in 1..Len(scans) /\ calls'[s] # calls[s]

\* The record of job t is touched in this step
RecordTouched(t) ==
    \/ scans'[t].results # scans[t].results
    \/ scans'[t].errors # scans[t].errors
    \/ scans'[t].stats # scans[t].stats
    \/ scans'[t].progress # scans[t].progress

\* What job s gains in this step comes from the one call of s that settles:
\* findings that this adapter can return, or an error under its name
GainsFromOwnCall(s) ==
    \E a \in AdapterNames :
        /\ calls[s][a] # calls'[s][a]
        /\ \A b \in AdapterNames \ {a} : calls'[s][b] = calls[s][b]
        /\ \/ /\ scans'[s].errors = scans[s].errors
              /\ \E out \in AdapterOutputs(a) :
                    scans'[s].results =
                        scans[s].results \o Arrivals(out, scans[s].stats.totalResults)
           \/ /\ scans'[s].results = scans[s].results
              /\ \E m \in {"AdapterError", "Timeout"} :
                    scans'[s].errors = Append(scans[s].errors, [adapter |-> a, error |-> m])

\* C35: when several jobs run concurrently, every finding and every error of
\* an adapter call is appended only to the job whose dispatch made the call:
\* no finding or error of one scan appears in another dispatched scan's
\* result or error list or changes another scan's stats or progress.
C35_CallsStayInTheirJob ==
    [][/\ \A s \in ScanIds :
            CallSettles(s) =>
                /\ \/ GainsFromOwnCall(s)
                   \/ /\ scans'[s] = scans[s]
                      /\ \E a \in AdapterNames :
                            calls[s][a] = "timedout" /\ calls'[s][a] = "late"
                /\ \A t \in 1..Len(scans) \ {s} :
                      /\ scans'[t] = scans[t]
                      /\ calls'[t] = calls[t]
       /\ \A t \in 1..Len(scans) :
            RecordTouched(t) => (calls'[t] # calls[t] \/ pc'[t] # pc[t])]_vars

\* C35 witness: two dispatched jobs are running with calls outstanding in
\* both, after one has taken findings and the other an adapter error
C35_Witness ==
    \E s, t \in 1..Len(scans) :
        /\ s # t
        /\ pc[s] = "awaiting" /\ pc[t] = "awaiting"
        /\ Pending(s) # {} /\ Pending(t) # {}
        /\ scans[s].results # <<>> /\ scans[s].errors = <<>>
        /\ scans[t].errors # <<>> /\ scans[t].results = <<>>

\* The adapters job s dispatched, and those of them whose race has settled
Dispatched(s) == {a \in AdapterNames : calls[s][a] # "idle"}
Settled(s) == {a \in AdapterNames : calls[s][a] \in {"ok", "failed", "timedout", "late"}}

\* The call of adapter a of job s leaves its race in this step
RaceSettles(s, a) ==
    calls[s][a] = "pending" /\ calls'[s][a] \in {"ok", "failed", "timedout"}

\* C36: in every state of a dispatched job completedSources <= totalSources,
\* each selected adapter increments completedSources exactly once, whether
\* it succeeds, fails or times out, and while the job is running progress is
\* round(completedSources / totalSources * 100).
C36_SourcesCountedOnce ==
    /\ [](\A s \in 1..Len(scans) :
            ~scans[s].fromCache =>
                LET st == scans[s].stats IN
                /\ st.completedSources <= st.totalSources
                /\ st.totalSources = Cardinality(Dispatched(s))
                /\ st.completedSources = Cardinality(Settled(s))
                /\ scans[s].status = "running" =>
                      scans[s].progress =
                          IF st.totalSources = 0 THEN 0
                          ELSE Progress(st.completedSources, st.totalSources))
    /\ [][\A s \in 1..Len(scans) :
            ~scans[s].fromCache =>
                LET gain == scans'[s].stats.completedSources
                              - scans[s].stats.completedSources
                IN /\ gain \in {0, 1}
                   /\ gain = 1 <=> \E a \in AdapterNames : RaceSettles(s, a)]_vars

\* C36 witness: a running job of two sources stands at one completed source
\* and progress 50 after the call that timed out has also returned late
C36_Witness ==
    \E s \in 1..Len(scans) :
        /\ scans[s].status = "running"
        /\ scans[s].stats.totalSources = 2
        /\ scans[s].stats.completedSources = 1
        /\ scans[s].progress = 50
        /\ \E a \in AdapterNames : calls[s][a] = "late"
        /\ Pending(s) # {}

----------------------------------------------------------------------------
(* Registration while jobs run: registerAdapter next to startScan and the    *)
(* adapter calls of up to MaxScans jobs, with the clock standing still       *)

RunningRegistryInit == Init /\ config.totalTimeout > config.defaultTimeout

RunningRegistryNext ==
    \/ \E adapter \in NewAdapters : RegisterAdapter(adapter)
    \/ \E q \in Queries, o \in OptionChoices : StartScanCached(q, o)
    \/ \E q \in Queries, o \in OptionChoices : StartScanDispatch(q, o)
    \/ \E s \in ScanIds, a \in AdapterNames : \E out \in AdapterOutputs(a) : AdapterSuccess(s, a, out)
    \/ \E s \in ScanIds, a \in AdapterNames : AdapterRaise(s, a)
    \/ \E s \in ScanIds : Finalize(s)

RunningRegistrySpec == RunningRegistryInit /\ [][RunningRegistryNext]_vars

\* The registry changes in this step
RegistryChanges == adapters' # adapters

\* C34: registering or replacing an adapter while a job is running does not
\* affect that job: the adapters it dispatched and its totalSources are
\* those fixed at dispatch, its progress still reaches 100 at completion,
\* and the new adapter is invoked only by scans started afterwards.
C34_RegistrationLeavesRunningJobs ==
    /\ [][RegistryChanges => (scans' = scans /\ calls' = calls /\ pc' = pc)]_vars
    /\ [][\A s \in 1..Len(scans) :
            /\ Dispatched(s)' = Dispatched(s)
            /\ scans'[s].stats.totalSources = scans[s].stats.totalSources]_vars
    /\ [][\A s \in ScanIds :
            (HandedBack(s) /\ ~scans'[s].fromCache) =>
                /\ Dispatched(s)' = SelectedAdapters(scans'[s].options)
                /\ Dispatched(s)' \subseteq RegisteredNames
                /\ scans'[s].stats.totalSources = Cardinality(Dispatched(s)')]_vars
    /\ [](\A s \in 1..Len(scans) :
            Finalized(s) =>
                /\ scans[s].progress = 100
                /\ Settled(s) = Dispatched(s)
                /\ scans[s].stats.completedSources = scans[s].stats.totalSources)

\* C34 witness: a job dispatched to the two default adapters has completed
\* at progress 100 with totalSources 2 although "custom" was registered
\* while it ran, and a job started after the registration has called
\* "custom" (with the cache on, the later job of the same key was dispatched,
\* so the earlier one had not finalized when it started)
C34_Witness ==
    \E s, t \in 1..Len(scans) :
        /\ s < t
        /\ config.enableCache
        /\ Finalized(s)
        /\ scans[s].progress = 100
        /\ scans[s].stats.totalSources = 2
        /\ Dispatched(s) = {"github", "reddit"}
        /\ "custom" \in RegisteredNames
        /\ ~scans[s].options.has /\ ~scans[t].options.has
        /\ Dispatched(t) = {"github", "reddit", "custom"}
        /\ scans[t].stats.totalSources = 3

----------------------------------------------------------------------------
(* Properties of the streaming route (checked under StreamSpec) *)

\* Stream i is open on a job and the client has not gone away
Listening(i) == streams[i].scan # 0 /\ ~streams[i].closed

\* C37: a streaming subscriber attached to an existing job receives exactly
\* one complete message once the job has reached a terminal status
\* (completed or error), whether it attached before or after the job
\* finished, and the stream is then closed.
C37_CompleteOnceThenEnded ==
    \A i \in StreamIds :
        /\ streams[i].completes <= 1
        /\ streams[i].ended <=> streams[i].completes = 1
        /\ (Listening(i) /\ scans[streams[i].scan].status \in {"completed", "error"}) =>
              (streams[i].completes = 1 /\ streams[i].ended)

----------------------------------------------------------------------------
(* The configured job limit (checked under Spec) *)

\* The jobs in status running
RunningJobs == {s \in 1..Len(scans) : scans[s].status = "running"}

\* C38: at most maxConcurrentJobs jobs are in status running at the same
\* time: a startScan issued while that many jobs are running does not
\* dispatch its adapters until a running job has finished.
C38_AtMostMaxConcurrentJobs ==
    /\ [](Cardinality(RunningJobs) <= config.maxConcurrentJobs)
    /\ [][\A s \in ScanIds :
            (HandedBack(s) /\ Cardinality(RunningJobs) >= config.maxConcurrentJobs) =>
                \A a \in AdapterNames : calls'[s][a] = "idle"]_vars

=============================================================================
